---------------------------- MODULE Spec2Model ----------------------------
(***************************************************************************)
(* State-machine model of deepchecks' vision dataset abstraction           *)
(* (src/deepchecks/vision/dataset.py: VisionData, FixedSampler,            *)
(* create_sample_loader) and of the simple-model comparison check          *)
(* (src/deepchecks/vision/checks/model_evaluation/                         *)
(* simple_model_comparison.py).                                            *)
(*                                                                         *)
(* Conventions: Python's None is the record None, a present value v is     *)
(* Some(v).  A call that raises is recorded by the name of the exception.  *)
(* Floats are IEEE 754 doubles; a score of the result table is held by    *)
(* its number of hundredths (90 stands for the float 0.9).  numpy's        *)
(* generator is the Mersenne Twister MT19937.                              *)
(***************************************************************************)
EXTENDS Integers, Sequences, FiniteSets, TLC

VARIABLES
    np_state,      \* state of numpy's process-wide random generator
    samplers,      \* FixedSampler objects, by slot
    iterations,    \* per sampler slot: its __iter__ runs, the last one maybe in progress
    vd,            \* the VisionData object (its fields)
    scans,         \* number of full scans of the data source (get_samples_per_class runs)
    first_spc,     \* the mapping returned by the first successful samples-per-class access
    last,          \* the last call made on the VisionData and its outcome
    args,          \* the arguments of the function under study
    ret,           \* what the call on args returned or raised (None before the call)
    check,         \* the SimpleModelComparison object
    context,       \* the run's Context: task type, train split, with_display
    fed,           \* the update calls made so far: <<dataset kind, batch, returned>>
    heap,          \* the mutable objects (dicts, datasets) by identity
    held,          \* the references the callers hold
    callers        \* per concurrent caller: its position in a property access

samplerVars == <<samplers, iterations>>
visionVars == <<vd, scans, first_spc, last>>
callVars == <<args, ret>>
checkVars == <<check, context, fed>>
objectVars == <<heap, held, callers>>
vars == <<np_state, samplers, iterations, vd, scans, first_spc, last,
          args, ret, check, context, fed, heap, held, callers>>

-----------------------------------------------------------------------------
(* Bounds of the model *)

MaxLen == 3          \* largest dataset length
MaxIters == 2        \* iterations recorded per sampler
NumSamplers == 2     \* sampler slots

Seeds == {0, 1}
Lengths == 0..MaxLen
SamplerIds == 1..NumSamplers

-----------------------------------------------------------------------------
(* Python values *)

None == [tag |-> "None"]
Some(v) == [tag |-> "Some", val |-> v]

Min(a, b) == IF a <= b THEN a ELSE b
Range(s) == {s[i] : i \in DOMAIN s}
NoDuplicates(s) == \A i, j \in DOMAIN s : i # j => s[i] # s[j]

\* Op applied to the value of v: v is evaluated once, like the right-hand
\* side of a Python assignment
With(v, Op(_)) == CHOOSE r \in {Op(x) : x \in {v}} : TRUE

-----------------------------------------------------------------------------
(* The parts of the state a specification does not use stay idle *)

IdleSampler ==
    /\ samplers = [i \in SamplerIds |-> None]
    /\ iterations = [i \in SamplerIds |-> <<>>]

IdleVision ==
    /\ vd = None
    /\ scans = 0
    /\ first_spc = None
    /\ last = None

IdleCall ==
    /\ args = None
    /\ ret = None

IdleCheck ==
    /\ check = None
    /\ context = None
    /\ fed = <<>>

IdleObjects ==
    /\ heap = <<>>
    /\ held = <<>>
    /\ callers = <<>>

-----------------------------------------------------------------------------------------------------------------------------------------------------
(* numpy's legacy process-wide generator: MT19937 (randomkit).  seed()     *)
(* fills the key of 624 words from the seed, a draw takes the next         *)
(* tempered word of the block generated from the key.                      *)

\* 32-bit words are <<high half, low half>>, both halves in 0..65535
RECURSIVE BitXor(_, _)
BitXor(a, b) ==
    IF a = 0 THEN b ELSE IF b = 0 THEN a
    ELSE 2 * BitXor(a \div 2, b \div 2) + ((a + b) % 2)

RECURSIVE BitAnd(_, _)
BitAnd(a, b) ==
    IF a = 0 \/ b = 0 THEN 0
    ELSE 2 * BitAnd(a \div 2, b \div 2) + ((a % 2) * (b % 2))

WordXor(x, y) == <<BitXor(x[1], y[1]), BitXor(x[2], y[2])>>
WordAnd(x, y) == <<BitAnd(x[1], y[1]), BitAnd(x[2], y[2])>>

\* x >> n and x << n on 32 bits, 0 < n < 32
WordShr(x, n) ==
    IF n >= 16 THEN <<0, x[1] \div (2 ^ (n - 16))>>
    ELSE <<x[1] \div (2 ^ n), (x[2] \div (2 ^ n)) + (x[1] % (2 ^ n)) * (2 ^ (16 - n))>>
WordShl(x, n) ==
    IF n >= 16 THEN <<(x[2] * (2 ^ (n - 16))) % 65536, 0>>
    ELSE <<((x[1] * (2 ^ n)) % 65536) + (x[2] \div (2 ^ (16 - n))), (x[2] * (2 ^ n)) % 65536>>

\* the 32-bit product of two halves
HalfProduct(x, y) ==
    LET p == x * (y % 256)
        q == x * (y \div 256)
        low == p + (q % 256) * 256
    IN  <<((q \div 256) + (low \div 65536)) % 65536, low % 65536>>

\* (a * w) mod 2^32
WordProduct(a, w) ==
    LET low == HalfProduct(a[2], w[2])
        cross == HalfProduct(a[1], w[2])[2] + HalfProduct(a[2], w[1])[2]
    IN  <<(low[1] + cross) % 65536, low[2]>>

\* (w + i) mod 2^32 for a small i
WordPlus(w, i) == <<(w[1] + ((w[2] + i) \div 65536)) % 65536, (w[2] + i) % 65536>>

\* mt[i] = 1812433253 * (mt[i-1] ^ (mt[i-1] >> 30)) + i
mt19937_step(prev, i) ==
    WordPlus(WordProduct(<<27655, 35173>>, WordXor(prev, WordShr(prev, 30))), i)

RECURSIVE mt19937_init(_, _, _)
\* the n words mt[i], ..., mt[i+n-1] that follow prev = mt[i-1]
mt19937_init(prev, i, n) ==
    IF n = 1 THEN <<mt19937_step(prev, i)>>
    ELSE LET half == n \div 2
             left == mt19937_init(prev, i, half)
         IN  left \o mt19937_init(left[half], i + half, n - half)

\* mt19937_seed(seed): the key of 624 words
mt19937_seed(seed) ==
    LET first == <<seed \div 65536, seed % 65536>>
    IN  <<first>> \o mt19937_init(first, 1, 623)

SeededKeys == [seed \in Seeds |-> mt19937_seed(seed)]

\* the key of a seed; np.random.seed takes no negative seed
KeyOf(seed) ==
    CASE seed \in Seeds -> SeededKeys[seed]
      [] seed \notin Seeds /\ seed >= 0 -> mt19937_seed(seed)

Twist(upper, lower, far) ==
    LET y == <<BitAnd(upper[1], 32768) + (lower[1] % 32768), lower[2]>>
        mag == IF y[2] % 2 = 1 THEN <<39176, 45279>> ELSE <<0, 0>>
    IN  WordXor(WordXor(far, WordShr(y, 1)), mag)

RECURSIVE mt19937_gen(_, _)
\* mt19937_gen: word k (from 0) of the block generated from the key
mt19937_gen(key, k) ==
    IF k < 227 THEN Twist(key[k + 1], key[k + 2], key[k + 398])
    ELSE IF k < 623 THEN Twist(key[k + 1], key[k + 2], mt19937_gen(key, k - 227))
    ELSE Twist(key[624], mt19937_gen(key, 0), mt19937_gen(key, 396))

Temper(w) ==
    LET y1 == WordXor(w, WordShr(w, 11))
        y2 == WordXor(y1, WordAnd(WordShl(y1, 7), <<40236, 22144>>))
        y3 == WordXor(y2, WordAnd(WordShl(y2, 15), <<61382, 0>>))
    IN  WordXor(y3, WordShr(y3, 18))

RECURSIVE BlockKey(_, _)
\* the key after b regenerations
BlockKey(seed, b) ==
    IF b = 0 THEN KeyOf(seed)
    ELSE LET prev == BlockKey(seed, b - 1)
         IN  [k \in 1..624 |-> mt19937_gen(prev, k - 1)]

\* the first 624 tempered words after seed(seed)
SeededBlocks ==
    [seed \in Seeds |-> [k \in 1..624 |-> Temper(mt19937_gen(KeyOf(seed), k - 1))]]

\* The generator's state is [seed, pos]: the seed it was last given and the
\* number of words drawn since.  Until the first np.random.seed the key is
\* the one numpy filled from the operating system's entropy when it was
\* imported: any key, and with it any words.  That state is UnseededState,
\* with OsEntropy in the place of the seed and no count of the words drawn.
OsEntropy == -1
UnseededState == [seed |-> OsEntropy, pos |-> 0]
Unseeded(state) == state.seed = OsEntropy

\* rk_random: the next word of a seeded generator
rk_random(state) ==
    IF state.seed \in Seeds /\ state.pos < 624
    THEN SeededBlocks[state.seed][state.pos + 1]
    ELSE Temper(mt19937_gen(BlockKey(state.seed, state.pos \div 624),
                            state.pos % 624))
\* the generator after a draw of one word
NpNext(state) == IF Unseeded(state) THEN state ELSE [state EXCEPT !.pos = @ + 1]

np_random_seed(seed) ==
    IF seed < 0 THEN [ok |-> FALSE, err |-> "ValueError"]
    ELSE [ok |-> TRUE, state |-> [seed |-> seed, pos |-> 0]]

RECURSIVE MaskOf(_)
MaskOf(max) == IF max = 0 THEN 0 ELSE 2 * MaskOf(max \div 2) + 1

RECURSIVE NpInterval(_, _)
\* rk_interval(max): draw words under the mask until one is at most max
NpInterval(state, max) ==
    IF max = 0 THEN [val |-> 0, state |-> state]
    ELSE With(MaskOf(max), LAMBDA mask :
         With(rk_random(state), LAMBDA w :
         With(BitAnd(w[1], mask \div 65536) * 65536 + BitAnd(w[2], mask % 65536),
              LAMBDA value :
                 IF value <= max THEN [val |-> value, state |-> NpNext(state)]
                 ELSE NpInterval(NpNext(state), max))))

Swap(s, i, j) == [s EXCEPT ![i] = s[j], ![j] = s[i]]

RECURSIVE NpShuffle(_, _, _)
NpShuffle(state, x, i) ==
    IF i < 1 THEN [val |-> x, state |-> state]
    ELSE With(NpInterval(state, i), LAMBDA j :
              NpShuffle(j.state, Swap(x, i + 1, j.val + 1), i - 1))

np_random_permutation(state, n) == NpShuffle(state, [k \in 1..n |-> k - 1], n - 1)

RECURSIVE Arrangements(_, _)
\* the sequences of k distinct values below n
Arrangements(n, k) ==
    IF k = 0 THEN {<<>>}
    ELSE UNION { {Append(s, x) : x \in (0..(n - 1)) \ Range(s)} :
                    s \in Arrangements(n, k - 1) }

\* what np.random.choice(n, size=(k,), replace=False) can return from a
\* generator that was never seeded: any k distinct values below n.  A
\* seeded generator leaves nothing to choose.
EntropyChoices(state, n, k) ==
    IF Unseeded(state) THEN Arrangements(n, k) ELSE {<<>>}

\* np.random.choice(n, size=(k,), replace=False) == permutation(n)[:k].
\* os is what the key of the operating system's entropy gives for the call,
\* one of EntropyChoices; it is the result when the generator was never
\* seeded, and is not read otherwise.
np_random_choice(state, n, k, os) ==
    IF Unseeded(state) THEN [val |-> os, state |-> state]
    ELSE With(np_random_permutation(state, n), LAMBDA p :
              [val |-> SubSeq(p.val, 1, k), state |-> p.state])

-----------------------------------------------------------------------------
(* class FixedSampler *)

\* __init__ up to np.random.seed (lines 318-327): the two asserts, the
\* fields, the reseeding of the process-wide generator.  sample_size is None
\* or Some(n); pending is the number of indices line 328 has still to draw.
FixedSampler_init_seed(length, seed, sample_size, state) ==
    IF length < 0
    THEN [ok |-> FALSE, err |-> "AssertionError", state |-> state]
    ELSE LET obj == [_length |-> length, _seed |-> seed, _indices |-> None]
         IN  IF sample_size = None
             THEN [ok |-> TRUE, obj |-> obj, pending |-> None, state |-> state]
             ELSE IF sample_size.val < 0
             THEN [ok |-> FALSE, err |-> "AssertionError", state |-> state]
             ELSE LET seeded == np_random_seed(seed)
                  IN  IF ~seeded.ok
                      THEN [ok |-> FALSE, err |-> seeded.err, state |-> state]
                      ELSE [ok |-> TRUE, obj |-> obj,
                            pending |-> Some(Min(sample_size.val, length)),
                            state |-> seeded.state]

\* line 328: np.random.choice from the generator as it is now
FixedSampler_init_choice(obj, size, state, os) ==
    With(np_random_choice(state, obj._length, size, os), LAMBDA drawn :
         [obj |-> [obj EXCEPT !._indices = Some(drawn.val)], state |-> drawn.state])

\* __init__(length, seed, sample_size) run without interruption: the object
\* and the generator state it leaves behind, or the exception.  Line 328
\* draws from the generator line 327 has just seeded.
FixedSampler_init(length, seed, sample_size, state) ==
    With(FixedSampler_init_seed(length, seed, sample_size, state), LAMBDA r :
         IF ~r.ok THEN r
         ELSE IF r.pending = None THEN [ok |-> TRUE, obj |-> r.obj, state |-> r.state]
         ELSE With(FixedSampler_init_choice(r.obj, r.pending.val, r.state, <<>>), LAMBDA c :
                   [ok |-> TRUE, obj |-> c.obj, state |-> c.state]))

\* torch.Generator.manual_seed(seed): the method is looked up on the class,
\* so the int seed is taken for the Generator instance and the call raises.
torch_Generator_manual_seed(seed) == [ok |-> FALSE, err |-> "TypeError"]

\* one next() on the generator __iter__ returned, after it yielded `yielded`
\* indices: the index it yields, the end of the iteration, or the exception
FixedSampler_next(s, yielded) ==
    IF s._indices # None
    THEN IF yielded < Len(s._indices.val)
         THEN [kind |-> "yield", val |-> s._indices.val[yielded + 1]]
         ELSE [kind |-> "stop"]
    ELSE [kind |-> "raise", err |-> torch_Generator_manual_seed(s._seed).err]

RECURSIVE FixedSampler_run(_, _)
FixedSampler_run(s, yielded) ==
    LET n == FixedSampler_next(s, Len(yielded))
    IN  IF n.kind = "yield" THEN FixedSampler_run(s, Append(yielded, n.val))
        ELSE IF n.kind = "stop" THEN [ok |-> TRUE, val |-> yielded]
        ELSE [ok |-> FALSE, err |-> n.err]

\* __iter__, run to exhaustion: the yielded indices, or the exception
FixedSampler_iter(s) == FixedSampler_run(s, <<>>)

\* __len__
FixedSampler_len(s) ==
    IF s._indices # None THEN Len(s._indices.val) ELSE s._length

-----------------------------------------------------------------------------
(* torch DataLoader, as the record of its configuration.  batch_sampler   *)
(* is the batch sampler the loader was given or built from its sampler     *)
(* and batch size, or None when it does no automatic batching (batch_size  *)
(* None).  A dataset is [iterable, labels, has_label, label_ok,            *)
(* label_shape]: whether it is an IterableDataset, the class id of each    *)
(* record, whether a record is an (image, label) pair, whether the label   *)
(* formatter accepts the labels, and the shape of the first formatted      *)
(* label.  collate_fn is "default_collate" (a batch of records becomes the  *)
(* list of the collated images and, if the records have one, the collated  *)
(* labels), "default_convert" (what it is given, converted part by part)   *)
(* or a function of the caller that collates like default_collate.         *)

\* the keyword arguments create_sample_loader copies from the wrapped loader
CommonProps == {"num_workers", "collate_fn", "pin_memory", "timeout",
                "worker_init_fn", "prefetch_factor", "persistent_workers"}

\* DataLoader(dataset, sampler=sampler, **props): batch_size is not passed
\* and takes the constructor's default of 1 (drop_last False)
DataLoader(dataset, sampler, props) ==
    [dataset |-> dataset, sampler |-> sampler, batch_size |-> 1,
     drop_last |-> FALSE,
     batch_sampler |-> [sampler |-> sampler, batch_size |-> 1, drop_last |-> FALSE],
     num_workers |-> props.num_workers, collate_fn |-> props.collate_fn,
     pin_memory |-> props.pin_memory, timeout |-> props.timeout,
     worker_init_fn |-> props.worker_init_fn,
     prefetch_factor |-> props.prefetch_factor,
     persistent_workers |-> props.persistent_workers]

\* len(dataset)
DatasetLen(dataset) == Len(dataset.labels)

RECURSIVE Chunk(_, _)
\* the batch sampler: consecutive groups of batch_size indices, the last one
\* short (drop_last is False)
Chunk(indices, size) ==
    IF indices = <<>> THEN <<>>
    ELSE IF Len(indices) <= size THEN <<indices>>
    ELSE <<SubSeq(indices, 1, size)>> \o Chunk(SubSeq(indices, size + 1, Len(indices)), size)

\* the sampler a pass over the loader iterates: the one of its batch
\* sampler, its own without automatic batching
IteratedSampler(loader) ==
    IF loader.batch_sampler # None THEN loader.batch_sampler.sampler ELSE loader.sampler

\* iter(sampler) of a loader: the index order, or the exception
SamplerIndices(loader) ==
    IF IteratedSampler(loader).kind = "FixedSampler"
    THEN FixedSampler_iter(IteratedSampler(loader).obj)
    ELSE [ok |-> TRUE, val |-> [k \in 1..DatasetLen(loader.dataset) |-> k - 1]]

\* the groups of indices a pass over the loader fetches: the batches of its
\* batch sampler, one record at a time without automatic batching
IndexGroups(loader, indices) ==
    IF loader.batch_sampler # None THEN Chunk(indices, loader.batch_sampler.batch_size)
    ELSE [k \in DOMAIN indices |-> <<indices[k]>>]

\* len(batch) of what the loader yields for a group.  Without automatic
\* batching it is collate_fn(dataset[i]), the record.  With it, it is
\* collate_fn([dataset[i] for i in group]): under default_convert the list
\* of the records, one part per record; otherwise the collated batch, as
\* many parts as a record has.
BatchLen(loader, group) ==
    IF loader.batch_sampler # None /\ loader.collate_fn = "default_convert"
    THEN Len(group)
    ELSE IF loader.dataset.has_label THEN 2 ELSE 1

\* batch[1] of a batch of two parts: the class id of the record without
\* automatic batching; under default_convert the second record of the
\* list, (image, label) or (image,); the collated class ids otherwise
LabelPart(loader, group) ==
    IF loader.batch_sampler = None THEN loader.dataset.labels[group[1] + 1]
    ELSE IF loader.collate_fn = "default_convert"
    THEN IF loader.dataset.has_label
         THEN [image |-> group[2], label |-> loader.dataset.labels[group[2] + 1]]
         ELSE [image |-> group[2]]
    ELSE [k \in DOMAIN group |-> loader.dataset.labels[group[k] + 1]]

\* dataset[i] raises for these indices (a record that cannot be read); a
\* dataset without the attribute reads every record
Unreadable(dataset) ==
    IF "unreadable" \in DOMAIN dataset THEN dataset.unreadable ELSE {}

\* next(iter(data_loader)): the number of parts of the first batch, or the
\* exception: StopIteration over a source that yields no batch
FirstBatch(loader) ==
    LET idx == SamplerIndices(loader)
    IN  IF ~idx.ok THEN [ok |-> FALSE, err |-> idx.err]
        ELSE IF idx.val = <<>> THEN [ok |-> FALSE, err |-> "StopIteration"]
        ELSE IF \E k \in DOMAIN IndexGroups(loader, idx.val)[1] :
                    IndexGroups(loader, idx.val)[1][k] \in Unreadable(loader.dataset)
        THEN [ok |-> FALSE, err |-> "ReadError"]
        ELSE [ok |-> TRUE, len |-> BatchLen(loader, IndexGroups(loader, idx.val)[1])]

\* `for _, label in loader: ....append(label)` (lines 186-187) over a loader
\* of a map-style dataset: the label part of each batch, in iteration
\* order.  When the pass raises, val holds the labels appended before it
\* did: a read that fails raises at its batch, and so does the unpacking of
\* a batch that has not two parts (ValueError).
LoaderLabelBatches(loader) ==
    LET idx == SamplerIndices(loader)
    IN  IF ~idx.ok THEN [ok |-> FALSE, err |-> idx.err, val |-> <<>>]
        ELSE LET chunks == IndexGroups(loader, idx.val)
                 unread == {b \in DOMAIN chunks :
                               \E k \in DOMAIN chunks[b] :
                                   chunks[b][k] \in Unreadable(loader.dataset)}
                 raising == unread \cup {b \in DOMAIN chunks :
                                            BatchLen(loader, chunks[b]) # 2}
             IN  IF raising = {}
                 THEN [ok |-> TRUE,
                       val |-> [b \in DOMAIN chunks |-> LabelPart(loader, chunks[b])]]
                 ELSE LET first == CHOOSE b \in raising : \A c \in raising : b <= c
                      IN  [ok |-> FALSE,
                           err |-> IF first \in unread THEN "ReadError" ELSE "ValueError",
                           val |-> [b \in 1..(first - 1) |->
                                       LabelPart(loader, chunks[b])]]

-----------------------------------------------------------------------------
(* create_sample_loader *)

\* create_sample_loader up to and including the np.random.seed of the
\* sampler's constructor (lines 348-362, 319-327): the sampler so far and
\* the number of indices line 328 has still to draw, or the exception
create_sample_loader_seed(data_loader, sample_size, seed, state) ==
    LET dataset == data_loader.dataset
    IN  IF dataset.iterable
        THEN [ok |-> FALSE, err |-> "DeepchecksValueError", state |-> state]
        ELSE LET length == DatasetLen(dataset)
             IN  With(FixedSampler_init_seed(length, seed, Some(sample_size), state),
                      LAMBDA fs :
                         IF ~fs.ok THEN [ok |-> FALSE, err |-> fs.err, state |-> fs.state]
                         ELSE [ok |-> TRUE, obj |-> fs.obj, pending |-> fs.pending.val,
                               state |-> fs.state])

\* the rest of create_sample_loader: the constructor's np.random.choice
\* (line 328) from the generator as it is now, and the new loader (363-364)
create_sample_loader_choice(data_loader, obj, pending, state, os) ==
    LET common_props_to_copy == [f \in CommonProps |-> data_loader[f]]
    IN  With(FixedSampler_init_choice(obj, pending, state, os), LAMBDA fs :
             [val |-> DataLoader(data_loader.dataset,
                                 [kind |-> "FixedSampler", obj |-> fs.obj],
                                 common_props_to_copy),
              state |-> fs.state])

\* create_sample_loader run without interruption: the constructor draws
\* from the generator it has just seeded
create_sample_loader(data_loader, sample_size, seed, state) ==
    With(create_sample_loader_seed(data_loader, sample_size, seed, state), LAMBDA s :
         IF ~s.ok THEN s
         ELSE With(create_sample_loader_choice(data_loader, s.obj, s.pending, s.state,
                                               <<>>),
                   LAMBDA c : [ok |-> TRUE, val |-> c.val, state |-> c.state]))

-----------------------------------------------------------------------------
(* The label formatter (deepchecks.vision.utils), by its contract *)

\* validate_label(data_loader): None, or the message saying why the labels
\* are not valid
validate_label(data_loader) ==
    IF ~data_loader.dataset.has_label THEN Some("Check requires dataset to have a label")
    ELSE IF ~data_loader.dataset.label_ok THEN Some("label is not in the expected format")
    ELSE None

\* get_samples_per_class(data_loader): one pass over the whole source,
\* class id -> number of samples
get_samples_per_class(data_loader) ==
    LET labels == data_loader.dataset.labels
    IN  [c \in Range(labels) |-> Cardinality({k \in DOMAIN labels : labels[k] = c})]

-----------------------------------------------------------------------------
(* class VisionData *)

\* TaskType set by __init__ from the type of the label formatter
TaskTypeOf(label_transformer) ==
    IF label_transformer = Some("ClassificationLabelFormatter") THEN Some("classification")
    ELSE IF label_transformer = Some("DetectionLabelFormatter") THEN Some("object_detection")
    ELSE None

VisionData_init(data_loader, num_classes, label_transformer, sample_size, random_seed) ==
    [_data |-> data_loader,
     label_transformer |-> label_transformer,
     task_type |-> TaskTypeOf(label_transformer),
     _num_classes |-> num_classes,
     _samples_per_class |-> None,
     _label_valid |-> IF label_transformer # None
                      THEN validate_label(data_loader)
                      ELSE Some("label_transformer parameter was not defined"),
     _sample_data_loader |-> None,
     _sample_labels |-> None,
     _sample_size |-> sample_size,
     _random_seed |-> random_seed]

\* copy() of a dict
copy(x) == x

n_of_samples_per_class_Rescan(self) ==
    IF self.task_type \in {Some("classification"), Some("object_detection")}
    THEN LET spc == get_samples_per_class(self._data)
         IN  [self |-> [self EXCEPT !._samples_per_class = Some(spc)],
              scanned |-> 1,
              out |-> [ok |-> TRUE, val |-> copy(spc)]]
    ELSE [self |-> self, scanned |-> 0,
          out |-> [ok |-> FALSE, err |-> "NotImplementedError"]]

\* property n_of_samples_per_class: the object afterwards, whether the
\* source was scanned, and the value returned or the exception raised
n_of_samples_per_class(self) ==
    IF self._samples_per_class = None
    THEN IF self.task_type \in {Some("classification"), Some("object_detection")}
         THEN LET spc == get_samples_per_class(self._data)
              IN  [self |-> [self EXCEPT !._samples_per_class = Some(spc)],
                   scanned |-> 1,
                   out |-> [ok |-> TRUE, val |-> copy(spc)]]
         ELSE [self |-> self, scanned |-> 0,
               out |-> [ok |-> FALSE, err |-> "NotImplementedError"]]
    ELSE [self |-> self, scanned |-> 0,
          out |-> [ok |-> TRUE, val |-> copy(self._samples_per_class.val)]]

\* property n_of_classes
n_of_classes(self) ==
    IF self._num_classes = None
    THEN With(n_of_samples_per_class(self), LAMBDA r :
              IF ~r.out.ok THEN r
              ELSE LET n == Cardinality(DOMAIN r.out.val)
                   IN  [self |-> [r.self EXCEPT !._num_classes = Some(n)],
                        scanned |-> r.scanned,
                        out |-> [ok |-> TRUE, val |-> n]])
    ELSE [self |-> self, scanned |-> 0,
          out |-> [ok |-> TRUE, val |-> self._num_classes.val]]

\* property sample_data_loader: the object afterwards, the generator state,
\* and the loader returned or the exception raised
sample_data_loader(self, state) ==
    IF self._sample_data_loader = None
    THEN With(create_sample_loader(self._data, self._sample_size,
                                   self._random_seed, state),
              LAMBDA r :
                 IF ~r.ok
                 THEN [self |-> self, state |-> r.state,
                       out |-> [ok |-> FALSE, err |-> r.err]]
                 ELSE [self |-> [self EXCEPT !._sample_data_loader = Some(r.val)],
                       state |-> r.state,
                       out |-> [ok |-> TRUE, val |-> r.val]])
    ELSE [self |-> self, state |-> state,
          out |-> [ok |-> TRUE, val |-> self._sample_data_loader.val]]

\* property sample_labels
sample_labels(self, state) ==
    IF self._sample_labels = None
    THEN LET emptied == [self EXCEPT !._sample_labels = Some(<<>>)]
         IN  With(sample_data_loader(emptied, state), LAMBDA r :
             IF ~r.out.ok THEN r
             ELSE With(LoaderLabelBatches(r.out.val), LAMBDA batches :
                  IF ~batches.ok
                  THEN [self |-> [r.self EXCEPT !._sample_labels = Some(batches.val)],
                        state |-> r.state,
                        out |-> [ok |-> FALSE, err |-> batches.err]]
                  ELSE [self |-> [r.self EXCEPT !._sample_labels = Some(batches.val)],
                        state |-> r.state,
                        out |-> [ok |-> TRUE, val |-> batches.val]]))
    ELSE [self |-> self, state |-> state,
          out |-> [ok |-> TRUE, val |-> self._sample_labels.val]]

-----------------------------------------------------------------------------
(* Specification Spec: one VisionData over a data loader; its lazy         *)
(* properties are read in any order, any number of times.                  *)

MaxScans == 3        \* cap of the scan counter

ClassIds == {0, 1}

RECURSIVE SeqsUpTo(_, _)
SeqsUpTo(S, n) ==
    IF n = 0 THEN {<<>>}
    ELSE LET shorter == SeqsUpTo(S, n - 1)
         IN  shorter \cup {Append(q, x) : q \in {t \in shorter : Len(t) = n - 1}, x \in S}

DefaultProps ==
    [batch_size |-> 1, num_workers |-> 0, collate_fn |-> "default_collate",
     pin_memory |-> FALSE, timeout |-> 0, worker_init_fn |-> "None",
     prefetch_factor |-> 2, persistent_workers |-> FALSE]

LoaderProps ==
    { DefaultProps,
      [DefaultProps EXCEPT !.batch_size = 2],
      [batch_size |-> 2, num_workers |-> 2, collate_fn |-> "custom_collate",
       pin_memory |-> TRUE, timeout |-> 30, worker_init_fn |-> "custom_init",
       prefetch_factor |-> 4, persistent_workers |-> TRUE] }

\* the sampler torch gives a loader that is given none (shuffle off)
DefaultSampler(dataset) ==
    IF dataset.iterable THEN [kind |-> "_InfiniteConstantSampler"]
    ELSE [kind |-> "SequentialSampler"]

\* the loader the caller built, DataLoader(dataset, batch_size=n, ...): the
\* default sampler, the caller's batching
UserLoader(dataset, props) ==
    [DataLoader(dataset, DefaultSampler(dataset), props)
        EXCEPT !.batch_size = props.batch_size,
               !.batch_sampler.batch_size = props.batch_size]

\* DataLoader(dataset, batch_size=None, ...): no automatic batching, the
\* loader has no batch sampler and yields one record at a time; where the
\* caller gives no collate_fn torch installs default_convert
UnbatchedLoader(dataset, props) ==
    [DataLoader(dataset, DefaultSampler(dataset), props)
        EXCEPT !.batch_size = None, !.batch_sampler = None,
               !.collate_fn = IF props.collate_fn = "default_collate"
                              THEN "default_convert" ELSE props.collate_fn]

LabelledDatasets ==
    { [iterable |-> it, labels |-> ls, has_label |-> TRUE, label_ok |-> TRUE,
       label_shape |-> <<>>] :
        it \in BOOLEAN, ls \in SeqsUpTo(ClassIds, MaxLen) }

LabelTransformers ==
    { Some("ClassificationLabelFormatter"), Some("DetectionLabelFormatter"),
      Some("OtherFormatter"), None }

Init ==
    /\ np_state = UnseededState
    /\ IdleSampler
    /\ IdleObjects
    /\ \E dataset \in LabelledDatasets, props \in LoaderProps,
          num_classes \in {None, Some(3)},
          label_transformer \in LabelTransformers,
          sample_size \in 0..(MaxLen + 1), random_seed \in Seeds :
          vd = VisionData_init(UserLoader(dataset, props), num_classes,
                               label_transformer, sample_size, random_seed)
    /\ scans = 0
    /\ first_spc = None
    /\ last = None
    /\ IdleCall
    /\ IdleCheck

Get_n_of_samples_per_class ==
    /\ scans < MaxScans
    /\ \E r \in {n_of_samples_per_class(vd)} :
           /\ vd' = r.self
           /\ scans' = scans + r.scanned
           /\ first_spc' = IF first_spc = None /\ r.out.ok
                           THEN Some(r.out.val) ELSE first_spc
           /\ last' = [op |-> "n_of_samples_per_class", scanned |-> r.scanned,
                       out |-> r.out]
    /\ UNCHANGED <<np_state, samplerVars, callVars, checkVars, objectVars>>

Get_n_of_classes ==
    /\ scans < MaxScans
    /\ \E r \in {n_of_classes(vd)} :
           /\ vd' = r.self
           /\ scans' = scans + r.scanned
           /\ last' = [op |-> "n_of_classes", scanned |-> r.scanned, out |-> r.out]
    /\ UNCHANGED <<np_state, samplerVars, first_spc, callVars, checkVars, objectVars>>

Get_sample_data_loader ==
    /\ \E r \in {sample_data_loader(vd, np_state)} :
           /\ vd' = r.self
           /\ np_state' = r.state
           /\ last' = [op |-> "sample_data_loader", scanned |-> 0, out |-> r.out]
    /\ UNCHANGED <<samplerVars, scans, first_spc, callVars, checkVars, objectVars>>

Get_sample_labels ==
    /\ \E r \in {sample_labels(vd, np_state)} :
           /\ vd' = r.self
           /\ np_state' = r.state
           /\ last' = [op |-> "sample_labels", scanned |-> 0, out |-> r.out]
    /\ UNCHANGED <<samplerVars, scans, first_spc, callVars, checkVars, objectVars>>

Next ==
    \/ Get_n_of_samples_per_class
    \/ Get_n_of_classes
    \/ Get_sample_data_loader
    \/ Get_sample_labels

Spec == Init /\ [][Next]_vars

\* C1: for a classification or detection VisionData the data source is
\* scanned at most once, and every samples-per-class access returns the
\* mapping the first access returned.
C1_ScannedOnceSameMapping ==
    vd.task_type \in {Some("classification"), Some("object_detection")} =>
        /\ scans <= 1
        /\ (last # None /\ last.op = "n_of_samples_per_class") =>
              /\ last.out.ok
              /\ first_spc # None
              /\ last.out.val = first_spc.val

\* C1 witness: a samples-per-class access answered from the cache after the
\* one scan, over a source that has records
C1_Witness ==
    /\ vd.task_type \in {Some("classification"), Some("object_detection")}
    /\ last # None
    /\ last.op = "n_of_samples_per_class"
    /\ last.scanned = 0
    /\ last.out.ok
    /\ scans = 1
    /\ DOMAIN last.out.val = ClassIds

\* C9: over a streaming (iterable) dataset every request for the sampled
\* view or the sample labels fails and nothing is cached by it.
C9_StreamingSampleFailsCleanly ==
    vd._data.dataset.iterable =>
        /\ vd._sample_data_loader = None
        /\ vd._sample_labels = None
        /\ (last # None /\ last.op \in {"sample_data_loader", "sample_labels"}) =>
              ~last.out.ok

\* C10: the sampled loader keeps the wrapped loader's worker parallelism,
\* batching, memory pinning and timeout.
C10_SampleKeepsConfiguration ==
    vd._sample_data_loader # None =>
        \A f \in {"num_workers", "batch_size", "drop_last", "pin_memory", "timeout"} :
            vd._sample_data_loader.val[f] = vd._data[f]

-----------------------------------------------------------------------------
(* VisionData's per-class cache with object identity: a dict lives on the  *)
(* heap, a field or a caller holds its address, and a change made through  *)
(* one address is seen through every other use of that address.            *)

\* a new object on the heap: the heap afterwards and the address
Alloc(hp, value) == [heap |-> Append(hp, value), ref |-> Len(hp) + 1]

\* copy.copy(d) of a dict: a new dict object with the same entries
copy_dict(hp, ref) == Alloc(hp, hp[ref])

n_of_samples_per_class_ref_NoCopy(self, hp) ==
    IF self._samples_per_class = None
    THEN IF self.task_type \in {Some("classification"), Some("object_detection")}
         THEN LET cached == Alloc(hp, get_samples_per_class(self._data))
              IN  [self |-> [self EXCEPT !._samples_per_class = Some(cached.ref)],
                   heap |-> cached.heap, scanned |-> 1,
                   out |-> [ok |-> TRUE, ref |-> cached.ref]]
         ELSE [self |-> self, heap |-> hp, scanned |-> 0,
               out |-> [ok |-> FALSE, err |-> "NotImplementedError"]]
    ELSE [self |-> self, heap |-> hp, scanned |-> 0,
          out |-> [ok |-> TRUE, ref |-> self._samples_per_class.val]]

\* property n_of_samples_per_class (lines 150-160) on the heap hp: the
\* object and the heap afterwards, whether the source was scanned, and the
\* address of the dict returned or the exception raised
n_of_samples_per_class_ref(self, hp) ==
    IF self._samples_per_class = None
    THEN IF self.task_type \in {Some("classification"), Some("object_detection")}
         THEN LET cached == Alloc(hp, get_samples_per_class(self._data))
                  copied == copy_dict(cached.heap, cached.ref)
              IN  [self |-> [self EXCEPT !._samples_per_class = Some(cached.ref)],
                   heap |-> copied.heap, scanned |-> 1,
                   out |-> [ok |-> TRUE, ref |-> copied.ref]]
         ELSE [self |-> self, heap |-> hp, scanned |-> 0,
               out |-> [ok |-> FALSE, err |-> "NotImplementedError"]]
    ELSE LET copied == copy_dict(hp, self._samples_per_class.val)
         IN  [self |-> self, heap |-> copied.heap, scanned |-> 0,
              out |-> [ok |-> TRUE, ref |-> copied.ref]]

\* property n_of_classes (lines 143-148) on the heap hp
n_of_classes_ref(self, hp) ==
    IF self._num_classes = None
    THEN LET r == n_of_samples_per_class_ref(self, hp)
         IN  IF ~r.out.ok
             THEN [self |-> r.self, heap |-> r.heap, scanned |-> r.scanned, out |-> r.out]
             ELSE LET n == Cardinality(DOMAIN r.heap[r.out.ref])
                  IN  [self |-> [r.self EXCEPT !._num_classes = Some(n)],
                       heap |-> r.heap, scanned |-> r.scanned,
                       out |-> [ok |-> TRUE, val |-> n]]
    ELSE [self |-> self, heap |-> hp, scanned |-> 0,
          out |-> [ok |-> TRUE, val |-> self._num_classes.val]]

-----------------------------------------------------------------------------
(* Specification SpecCopy: callers read samples-per-class and the number   *)
(* of classes of one VisionData and change the dicts they were handed.     *)

MaxHeld == 2         \* mappings handed to callers
MaxObjects == 5      \* objects on the heap

\* what a caller does to a dict it holds
DictChanges == {"add", "remove", "change"}

\* d[2] = 1; del d[key]; d[key] = 0
ChangedDict(d, change, key) ==
    CASE change = "add" -> [x \in {2} |-> 1] @@ d
      [] change = "remove" -> [x \in DOMAIN d \ {key} |-> d[x]]
      [] change = "change" -> [d EXCEPT ![key] = 0]

InitCopy ==
    /\ np_state = UnseededState
    /\ IdleSampler
    /\ \E labels \in {<<>>, <<0>>, <<0, 1>>, <<1, 1, 0>>},
          num_classes \in {None, Some(3)},
          label_transformer \in {Some("ClassificationLabelFormatter"),
                                 Some("OtherFormatter")} :
          vd = VisionData_init(
                  UserLoader([iterable |-> FALSE, labels |-> labels, has_label |-> TRUE,
                              label_ok |-> TRUE, label_shape |-> <<>>], DefaultProps),
                  num_classes, label_transformer, 1, 0)
    /\ scans = 0
    /\ first_spc = None
    /\ last = None
    /\ IdleCall
    /\ IdleCheck
    /\ heap = <<>>
    /\ held = <<>>
    /\ callers = <<>>

\* the mapping the scan computed, once the cache is filled
ComputedMapping(self, hp, before) ==
    IF before = None /\ self._samples_per_class # None
    THEN Some(hp[self._samples_per_class.val])
    ELSE before

Read_n_of_samples_per_class ==
    /\ Len(held) < MaxHeld
    /\ Len(heap) + 2 <= MaxObjects
    /\ LET r == n_of_samples_per_class_ref(vd, heap)
       IN  /\ vd' = r.self
           /\ heap' = r.heap
           /\ scans' = scans + r.scanned
           /\ first_spc' = ComputedMapping(r.self, r.heap, first_spc)
           /\ held' = IF r.out.ok THEN Append(held, r.out.ref) ELSE held
           /\ last' = [op |-> "n_of_samples_per_class", ok |-> r.out.ok,
                       val |-> IF r.out.ok THEN Some(r.heap[r.out.ref]) ELSE None]
    /\ UNCHANGED <<np_state, samplerVars, callVars, checkVars, callers>>

Read_n_of_classes ==
    /\ Len(heap) + 2 <= MaxObjects
    /\ (last # None => last.op # "n_of_classes")
    /\ LET r == n_of_classes_ref(vd, heap)
       IN  /\ vd' = r.self
           /\ heap' = r.heap
           /\ scans' = scans + r.scanned
           /\ first_spc' = ComputedMapping(r.self, r.heap, first_spc)
           /\ last' = [op |-> "n_of_classes", ok |-> r.out.ok,
                       inferred |-> vd._num_classes = None /\ r.out.ok,
                       val |-> IF r.out.ok THEN Some(r.out.val) ELSE None]
    /\ UNCHANGED <<np_state, samplerVars, callVars, checkVars, held, callers>>

ChangeHeld(i, change, key) ==
    /\ i \in DOMAIN held
    /\ change # "add" => key \in DOMAIN heap[held[i]]
    /\ heap' = [heap EXCEPT ![held[i]] = ChangedDict(@, change, key)]
    /\ last' = [op |-> "change", ok |-> TRUE, val |-> None]
    /\ UNCHANGED <<np_state, samplerVars, vd, scans, first_spc, callVars, checkVars,
                   held, callers>>

NextCopy ==
    \/ Read_n_of_samples_per_class
    \/ Read_n_of_classes
    \/ \E i \in 1..MaxHeld, change \in DictChanges, key \in ClassIds :
          ChangeHeld(i, change, key)

SpecCopy == InitCopy /\ [][NextCopy]_vars

\* C11: whatever callers did to the mappings they were handed, the cache
\* still holds the mapping the scan computed, every samples-per-class
\* access returns that mapping, and an inferred number of classes is the
\* number of its keys.
C11_CallerChangesLeaveCache ==
    first_spc # None =>
        /\ vd._samples_per_class # None
        /\ heap[vd._samples_per_class.val] = first_spc.val
        /\ (last.op = "n_of_samples_per_class" /\ last.ok) => last.val = first_spc
        /\ (last.op = "n_of_classes" /\ last.inferred) =>
              /\ last.val = Some(Cardinality(DOMAIN first_spc.val))
              /\ vd._num_classes = last.val

\* C11 witness: a caller added a key to the mapping it was handed and the
\* number of classes was inferred after that, from a two-class source
C11_Witness ==
    /\ first_spc # None
    /\ Cardinality(DOMAIN first_spc.val) = 2
    /\ \E i \in DOMAIN held : 2 \in DOMAIN heap[held[i]]
    /\ last.op = "n_of_classes"
    /\ last.inferred
    /\ last.val = Some(2)
    /\ scans = 1

-----------------------------------------------------------------------------
(* Specification SpecRace: concurrent callers read the lazy properties of  *)
(* one VisionData.  A property access is a test of the cache field, the    *)
(* computation, the assignment to the field and the return; callers may    *)
(* be switched between any two of these.                                   *)

NumCallers == 2      \* concurrent callers
MaxAccesses == 2     \* property accesses per caller

CallerIds == 1..NumCallers

LazyProperties == {"n_of_samples_per_class", "sample_data_loader"}

\* the cache field behind a lazy property
CacheField(op) ==
    IF op = "n_of_samples_per_class" THEN "_samples_per_class" ELSE "_sample_data_loader"

IdleCaller == [pc |-> "idle", op |-> "none", tmp |-> None, out |-> None,
               accesses |-> 0, created |-> 0]

InitRace ==
    /\ np_state = UnseededState
    /\ IdleSampler
    /\ \E labels \in SeqsUpTo(ClassIds, MaxLen), iterable \in BOOLEAN,
          label_transformer \in {Some("ClassificationLabelFormatter"), Some("OtherFormatter")} :
          vd = VisionData_init(
                  UserLoader([iterable |-> iterable, labels |-> labels, has_label |-> TRUE,
                              label_ok |-> TRUE, label_shape |-> <<>>], DefaultProps),
                  None, label_transformer, 1, 0)
    /\ scans = 0
    /\ first_spc = None
    /\ last = None
    /\ IdleCall
    /\ IdleCheck
    /\ heap = <<>>
    /\ held = <<>>
    /\ callers = [c \in CallerIds |-> IdleCaller]

\* a caller starts reading a property
Begin(c, op) ==
    /\ callers[c].pc = "idle"
    /\ callers[c].accesses < MaxAccesses
    /\ callers' = [callers EXCEPT ![c].pc = "test", ![c].op = op, ![c].tmp = None,
                                  ![c].out = None, ![c].accesses = @ + 1]
    /\ UNCHANGED <<np_state, samplerVars, visionVars, callVars, checkVars, heap, held>>

\* `if self._samples_per_class is None:` (153), `if self._sample_data_loader is None:` (177)
TestCache(c) ==
    /\ callers[c].pc = "test"
    /\ callers' = [callers EXCEPT ![c].pc =
                      IF vd[CacheField(callers[c].op)] = None THEN "compute" ELSE "return"]
    /\ UNCHANGED <<np_state, samplerVars, visionVars, callVars, checkVars, heap, held>>

\* the right-hand side of line 155: the scan of the source, or line 157's raise
ComputeSamplesPerClass(c) ==
    /\ callers[c].pc = "compute"
    /\ callers[c].op = "n_of_samples_per_class"
    /\ IF vd.task_type \in {Some("classification"), Some("object_detection")}
       THEN /\ callers' = [callers EXCEPT ![c].pc = "store",
                                          ![c].tmp = Some(get_samples_per_class(vd._data))]
            /\ scans' = scans + 1
       ELSE /\ callers' = [callers EXCEPT ![c].pc = "idle",
                              ![c].out = Some([ok |-> FALSE, err |-> "NotImplementedError"])]
            /\ scans' = scans
    /\ UNCHANGED <<np_state, samplerVars, vd, first_spc, last, callVars, checkVars,
                   heap, held>>

\* the right-hand side of line 178, create_sample_loader(...), up to and
\* including the np.random.seed of the sampler's constructor
ComputeSampleLoader(c) ==
    /\ callers[c].pc = "compute"
    /\ callers[c].op = "sample_data_loader"
    /\ \E r \in {create_sample_loader_seed(vd._data, vd._sample_size, vd._random_seed,
                                           np_state)} :
           /\ np_state' = r.state
           /\ callers' = IF r.ok
                         THEN [callers EXCEPT ![c].pc = "choose",
                                  ![c].tmp = Some([obj |-> r.obj, pending |-> r.pending])]
                         ELSE [callers EXCEPT ![c].pc = "idle",
                                  ![c].out = Some([ok |-> FALSE, err |-> r.err])]
    /\ UNCHANGED <<samplerVars, visionVars, callVars, checkVars, heap, held>>

\* the constructor's np.random.choice, from the generator as the callers
\* left it, and the new loader
ChooseSampleLoader(c) ==
    /\ callers[c].pc = "choose"
    /\ \E os \in EntropyChoices(np_state, callers[c].tmp.val.obj._length,
                                 callers[c].tmp.val.pending) :
       \E r \in {create_sample_loader_choice(vd._data, callers[c].tmp.val.obj,
                                             callers[c].tmp.val.pending, np_state,
                                             os)} :
           /\ np_state' = r.state
           /\ callers' = [callers EXCEPT ![c].pc = "store", ![c].tmp = Some(r.val),
                                         ![c].created = @ + 1]
    /\ UNCHANGED <<samplerVars, visionVars, callVars, checkVars, heap, held>>

\* the assignment of lines 155 and 178
StoreCache(c) ==
    /\ callers[c].pc = "store"
    /\ vd' = [vd EXCEPT ![CacheField(callers[c].op)] = callers[c].tmp]
    /\ callers' = [callers EXCEPT ![c].pc = "return"]
    /\ UNCHANGED <<np_state, samplerVars, scans, first_spc, last, callVars, checkVars,
                   heap, held>>

\* lines 160 and 179
ReturnCached(c) ==
    /\ callers[c].pc = "return"
    /\ callers' = [callers EXCEPT ![c].pc = "idle",
                      ![c].out = Some([ok |-> TRUE,
                                       val |-> copy(vd[CacheField(callers[c].op)].val)])]
    /\ UNCHANGED <<np_state, samplerVars, visionVars, callVars, checkVars, heap, held>>

NextRace ==
    \E c \in CallerIds :
        \/ \E op \in LazyProperties : Begin(c, op)
        \/ TestCache(c)
        \/ ComputeSamplesPerClass(c)
        \/ ComputeSampleLoader(c)
        \/ ChooseSampleLoader(c)
        \/ StoreCache(c)
        \/ ReturnCached(c)

SpecRace == InitRace /\ [][NextRace]_vars

RECURSIVE Created(_)
\* the sampled sources created by the callers up to c
Created(c) == IF c = 0 THEN 0 ELSE Created(c - 1) + callers[c].created

\* C12: in every interleaving of the callers' accesses the source is
\* scanned at most once and the sampled source is created at most once.
C12_LazyCachesComputedOnce ==
    /\ scans <= 1
    /\ Created(NumCallers) <= 1

-----------------------------------------------------------------------------
(* VisionData.copy and add_augmentation.  Datasets are objects on the heap *)
(* (a loader holds the address of its dataset); a dataset's attributes     *)
(* include, under some field name, its transform pipeline: the sequence of *)
(* transforms applied, first one first.                                    *)

\* the loader with the dataset itself in place of its address, and back
Deref(data_loader, hp) == [data_loader EXCEPT !.dataset = hp[@]]
WithDataset(data_loader, ref) == [data_loader EXCEPT !.dataset = ref]

\* __init__ (lines 90-141) with the image formatter and the transform field;
\* without an image formatter the identity ImageFormatter is installed
\* (lines 100 and 115-118)
VisionData_init_fields(data_loader, label_transformer, image_transformer, transform_field, hp) ==
    [VisionData_init(Deref(data_loader, hp), None, label_transformer, 1000, 0)
        EXCEPT !._data = data_loader]
    @@ [image_transformer |-> IF image_transformer = None
                              THEN Some("ImageFormatter")
                              ELSE image_transformer,
        transform_field |-> transform_field]

\* the dict of keyword arguments: the seven properties and the batch
\* sampler, or the sampler when the loader has no batch sampler
get_data_loader_props_to_copy(data_loader) ==
    [f \in CommonProps |-> data_loader[f]]
    @@ (IF data_loader.batch_sampler # None
        THEN [batch_sampler |-> data_loader.batch_sampler]
        ELSE [sampler |-> data_loader.sampler])

\* copy.copy(dataset): a new object with the same attributes
copy_object(hp, ref) == Alloc(hp, hp[ref])

\* DataLoader(**props), props holding the dataset itself and a sampler or
\* a batch sampler.  Over an IterableDataset the constructor takes neither
\* and raises ValueError.  With a batch_sampler: batch_size is None, the
\* sampler attribute the default one.  With a sampler: the constructor's
\* default batch_size of 1 and the batch sampler it builds from the two.
DataLoader_of_props(props) ==
    IF props.dataset.iterable THEN [ok |-> FALSE, err |-> "ValueError"]
    ELSE IF "batch_sampler" \in DOMAIN props
    THEN [ok |-> TRUE,
          val |-> [f \in CommonProps |-> props[f]]
                  @@ [dataset |-> props.dataset, sampler |-> DefaultSampler(props.dataset),
                      batch_size |-> None, drop_last |-> FALSE,
                      batch_sampler |-> props.batch_sampler]]
    ELSE [ok |-> TRUE, val |-> DataLoader(props.dataset, props.sampler, props)]

\* VisionData.copy (lines 238-246): the heap afterwards and the new object,
\* or the exception of the loader's constructor (line 242); the dataset
\* copied at line 241 is then held by nothing
VisionData_copy(self, hp) ==
    LET copied == copy_object(hp, self._data.dataset)
        props == get_data_loader_props_to_copy(self._data)
                     @@ [dataset |-> copied.heap[copied.ref]]
        new_data_loader == DataLoader_of_props(props)
    IN  IF ~new_data_loader.ok
        THEN [ok |-> FALSE, err |-> new_data_loader.err, heap |-> hp]
        ELSE [ok |-> TRUE, heap |-> copied.heap,
              val |-> VisionData_init_fields(
                          WithDataset(new_data_loader.val, copied.ref),
                          self.label_transformer, self.image_transformer,
                          self.transform_field, copied.heap)]

\* deepchecks.vision.utils.transformations.add_augmentation_in_start: a new
\* pipeline applying aug and then the transforms there were
add_augmentation_in_start(aug, transform) == <<aug>> \o transform

\* VisionData.add_augmentation (lines 226-236): the heap afterwards, or the
\* exception
add_augmentation(self, aug, hp) ==
    LET dataset_ref == self._data.dataset
    IN  IF self.transform_field \notin DOMAIN hp[dataset_ref].attrs
        THEN [ok |-> FALSE, err |-> "DeepchecksValueError", heap |-> hp]
        ELSE LET transform == hp[dataset_ref].attrs[self.transform_field]
                 new_transform == add_augmentation_in_start(aug, transform)
             IN  [ok |-> TRUE,
                  heap |-> [hp EXCEPT ![dataset_ref].attrs[self.transform_field] =
                                          new_transform]]

-----------------------------------------------------------------------------
(* Specification SpecAugment: a VisionData and its copies; augmentations   *)
(* are added to any of them and the lazy caches of any of them are filled. *)

MaxViews == 2        \* VisionData objects: the original and its copies
MaxPipeline == 2     \* transforms in a pipeline

Augmentations == {"flip", "blur"}
TransformFields == {"transforms", "transform"}

\* a dataset, map-style or streaming, with its pipeline under each of the
\* field names
AugmentedDatasets ==
    { [iterable |-> it, labels |-> <<1, 0, 1>>, has_label |-> TRUE, label_ok |-> TRUE,
       label_shape |-> <<>>, attrs |-> [f \in {field} |-> <<"resize">>]] :
        it \in BOOLEAN, field \in TransformFields }

\* the VisionData looks for the pipeline under the default field name, so
\* the dataset that keeps it under the other name has no pipeline for it
InitAugment ==
    /\ np_state = UnseededState
    /\ IdleSampler
    /\ IdleVision
    /\ IdleCall
    /\ IdleCheck
    /\ \E dataset \in AugmentedDatasets, batched \in BOOLEAN,
          image_transformer \in {None, Some("ImageFormatter")} :
          /\ heap = <<dataset>>
          /\ held = << VisionData_init_fields(
                          WithDataset(
                              IF batched
                              THEN UserLoader(dataset, [DefaultProps EXCEPT !.batch_size = 2])
                              ELSE UnbatchedLoader(dataset, DefaultProps),
                              1),
                          Some("ClassificationLabelFormatter"), image_transformer,
                          "transforms", <<dataset>>) >>
    /\ callers = <<>>

\* the object with its loaders holding the dataset itself, and back
OnDataset(self, hp) ==
    [self EXCEPT !._data = Deref(@, hp),
                 !._sample_data_loader = IF @ = None THEN None ELSE Some(Deref(@.val, hp))]
OffDataset(self, ref) ==
    [self EXCEPT !._data = WithDataset(@, ref),
                 !._sample_data_loader = IF @ = None THEN None
                                         ELSE Some(WithDataset(@.val, ref))]

Copy(i) ==
    /\ i \in DOMAIN held
    /\ Len(held) < MaxViews
    /\ LET r == VisionData_copy(held[i], heap)
       IN  /\ heap' = r.heap
           /\ held' = IF r.ok THEN Append(held, r.val) ELSE held
           /\ last' = [op |-> "copy", target |-> i, ok |-> r.ok, aug |-> None]
    /\ UNCHANGED <<np_state, samplerVars, vd, scans, first_spc, callVars, checkVars,
                   callers>>

AddAugmentation(i, aug) ==
    /\ i \in DOMAIN held
    /\ \A f \in DOMAIN heap[held[i]._data.dataset].attrs :
          Len(heap[held[i]._data.dataset].attrs[f]) < MaxPipeline
    /\ LET r == add_augmentation(held[i], aug, heap)
       IN  /\ heap' = r.heap
           /\ last' = [op |-> "add_augmentation", target |-> i, ok |-> r.ok,
                       aug |-> Some(aug)]
    /\ UNCHANGED <<np_state, samplerVars, vd, scans, first_spc, callVars, checkVars,
                   held, callers>>

Fill_n_of_samples_per_class(i) ==
    /\ i \in DOMAIN held
    /\ held[i]._samples_per_class = None
    /\ LET ref == held[i]._data.dataset
           r == n_of_samples_per_class(OnDataset(held[i], heap))
       IN  /\ held' = [held EXCEPT ![i] = OffDataset(r.self, ref)]
           /\ scans' = scans + r.scanned
           /\ last' = [op |-> "n_of_samples_per_class", target |-> i, ok |-> r.out.ok,
                       aug |-> None]
    /\ UNCHANGED <<np_state, samplerVars, vd, first_spc, callVars, checkVars,
                   heap, callers>>

Fill_sample_labels(i) ==
    /\ i \in DOMAIN held
    /\ held[i]._sample_labels = None
    /\ LET ref == held[i]._data.dataset
           r == sample_labels(OnDataset(held[i], heap), np_state)
       IN  /\ held' = [held EXCEPT ![i] = OffDataset(r.self, ref)]
           /\ np_state' = r.state
           /\ last' = [op |-> "sample_labels", target |-> i, ok |-> r.out.ok, aug |-> None]
    /\ UNCHANGED <<samplerVars, vd, scans, first_spc, callVars, checkVars, heap, callers>>

NextAugment ==
    \/ \E i \in 1..MaxViews : Copy(i)
    \/ \E i \in 1..MaxViews, aug \in Augmentations : AddAugmentation(i, aug)
    \/ \E i \in 1..MaxViews : Fill_n_of_samples_per_class(i)
    \/ \E i \in 1..MaxViews : Fill_sample_labels(i)

SpecAugment == InitAugment /\ [][NextAugment]_vars

\* the transform pipeline of a VisionData: None when its dataset has no
\* attribute under the transform field
PipelineOf(self, hp) ==
    IF self.transform_field \in DOMAIN hp[self._data.dataset].attrs
    THEN Some(hp[self._data.dataset].attrs[self.transform_field])
    ELSE None

\* what C17 says stays as it was: the pipeline and the lazy caches
Kept(self, hp) ==
    <<PipelineOf(self, hp), hp[self._data.dataset], self._samples_per_class,
      self._sample_data_loader, self._sample_labels>>

\* C17: copy() produces a new VisionData over a dataset object of its own,
\* with the formatters and the transform field of its original and the
\* original's pipeline; an add_augmentation or a cache population on one
\* VisionData leaves the transform pipeline, the samples-per-class cache and
\* the sampled-view caches of every other one (the original and its copies)
\* as they were; a successful add_augmentation(t) puts t in front of the
\* pipeline there was; a failed one changes nothing.
C17_CopyIsIndependent ==
    [][ /\ \A i \in DOMAIN held :
              (last'.op # "copy" /\ last'.target # i) =>
                  Kept(held'[i], heap') = Kept(held[i], heap)
        /\ last'.op = "copy" =>
              LET v == held[last'.target]
                  c == held'[Len(held')]
              IN  /\ Len(held') = Len(held) + 1
                  /\ c.label_transformer = v.label_transformer
                  /\ c.image_transformer = v.image_transformer
                  /\ c.transform_field = v.transform_field
                  /\ PipelineOf(c, heap') = PipelineOf(v, heap)
                  /\ c._data.dataset \notin {held[i]._data.dataset : i \in DOMAIN held}
                  /\ \A i \in DOMAIN held : Kept(held'[i], heap') = Kept(held[i], heap)
        /\ (last'.op = "add_augmentation" /\ last'.ok) =>
              PipelineOf(held'[last'.target], heap') =
                  Some(<<last'.aug.val>> \o PipelineOf(held[last'.target], heap).val)
        /\ (last'.op = "add_augmentation" /\ ~last'.ok) =>
              /\ PipelineOf(held[last'.target], heap) = None
              /\ heap' = heap
              /\ held' = held
      ]_vars

-----------------------------------------------------------------------------
(* Specification SpecLabels: the sample labels of a VisionData over a      *)
(* dataset some of whose records cannot be read at the time of an access;  *)
(* between accesses a record may become readable or unreadable.            *)

\* map-style datasets, each with a set of records whose read raises
UnreliableDatasets ==
    { [iterable |-> FALSE, labels |-> ls, has_label |-> TRUE, label_ok |-> TRUE,
       label_shape |-> <<>>, unreadable |-> bad] :
        ls \in SeqsUpTo(ClassIds, MaxLen) \ {<<>>}, bad \in SUBSET (0..(MaxLen - 1)) }

InitLabels ==
    /\ np_state = UnseededState
    /\ IdleSampler
    /\ IdleVision
    /\ IdleCall
    /\ IdleCheck
    /\ \E dataset \in UnreliableDatasets :
          /\ dataset.unreadable \subseteq 0..(Len(dataset.labels) - 1)
          /\ heap = <<dataset>>
          /\ held = << VisionData_init_fields(WithDataset(UserLoader(dataset, DefaultProps), 1),
                                              Some("ClassificationLabelFormatter"),
                                              Some("ImageFormatter"), "transforms",
                                              <<dataset>>) >>
    /\ callers = <<>>

Access_sample_data_loader ==
    /\ LET ref == held[1]._data.dataset
           r == sample_data_loader(OnDataset(held[1], heap), np_state)
       IN  /\ held' = [held EXCEPT ![1] = OffDataset(r.self, ref)]
           /\ np_state' = r.state
           /\ last' = [op |-> "sample_data_loader", ok |-> r.out.ok, val |-> None]
    /\ UNCHANGED <<samplerVars, vd, scans, first_spc, callVars, checkVars, heap, callers>>

Access_sample_labels ==
    /\ LET ref == held[1]._data.dataset
           r == sample_labels(OnDataset(held[1], heap), np_state)
       IN  /\ held' = [held EXCEPT ![1] = OffDataset(r.self, ref)]
           /\ np_state' = r.state
           /\ last' = [op |-> "sample_labels", ok |-> r.out.ok,
                       val |-> IF r.out.ok THEN Some(r.out.val) ELSE None]
    /\ UNCHANGED <<samplerVars, vd, scans, first_spc, callVars, checkVars, heap, callers>>

\* a record of the dataset becomes readable, or stops being readable
SetReadable(k, readable) ==
    /\ k \in 0..(Len(heap[1].labels) - 1)
    /\ readable <=> k \in heap[1].unreadable
    /\ heap' = [heap EXCEPT ![1].unreadable = IF readable THEN @ \ {k} ELSE @ \cup {k}]
    /\ last' = [op |-> "set_readable", ok |-> TRUE, val |-> None]
    /\ UNCHANGED <<np_state, samplerVars, vd, scans, first_spc, callVars, checkVars,
                   held, callers>>

NextLabels ==
    \/ Access_sample_data_loader
    \/ Access_sample_labels
    \/ \E k \in 0..(MaxLen - 1), readable \in BOOLEAN : SetReadable(k, readable)

SpecLabels == InitLabels /\ [][NextLabels]_vars

\* the label part of every batch of the sampled view, in iteration order
SampledViewLabels(self, hp) ==
    LET loader == Deref(self._sample_data_loader.val, hp)
        chunks == IndexGroups(loader, SamplerIndices(loader).val)
    IN  [b \in DOMAIN chunks |-> LabelPart(loader, chunks[b])]

\* C18: a list returned by sample_labels holds the label entry of every
\* batch of the sampled view, in iteration order, whatever accesses came
\* before it, those that raised partway through the iteration included.
C18_SampleLabelsOnePerBatch ==
    (last # None /\ last.op = "sample_labels" /\ last.ok) =>
        last.val = Some(SampledViewLabels(held[1], heap))

-----------------------------------------------------------------------------
(* VisionData.validate_shared_label and what it calls *)

\* is_have_label(): whether the first batch has two parts, or the exception
\* of next(iter(...)) (line 204)
is_have_label(self) ==
    LET batch == FirstBatch(self._data)
    IN  IF ~batch.ok THEN [ok |-> FALSE, err |-> batch.err, msg |-> ""]
        ELSE [ok |-> TRUE, val |-> batch.len = 2]

\* get_label_shape(): assert_label() raises when _label_valid is a message;
\* otherwise the shape of the first formatted label of the first batch, or
\* the exception of next(iter(...)) (line 195)
get_label_shape(self) ==
    IF self._label_valid # None
    THEN [ok |-> FALSE, err |-> "DeepchecksValueError", msg |-> self._label_valid.val]
    ELSE LET batch == FirstBatch(self._data)
         IN  IF ~batch.ok THEN [ok |-> FALSE, err |-> batch.err, msg |-> ""]
             ELSE IF batch.len < 2
             THEN [ok |-> FALSE, err |-> "IndexError", msg |-> ""]
             ELSE [ok |-> TRUE, val |-> self._data.dataset.label_shape]

\* _, *label_shape = shape
DropFirst(shape) == SubSeq(shape, 2, Len(shape))

SameShapeMsg == "Datasets required to share the same label shape"

validate_shared_label_FullShape(self, other) ==
    IF ~is_have_label(self).ok THEN is_have_label(self)
    ELSE IF ~is_have_label(other).ok THEN is_have_label(other)
    ELSE IF is_have_label(self).val # is_have_label(other).val
    THEN [ok |-> FALSE, err |-> "DeepchecksValueError",
          msg |-> "Datasets required to both either have or don't have labels"]
    ELSE IF self.task_type # other.task_type
    THEN [ok |-> FALSE, err |-> "DeepchecksValueError",
          msg |-> "Datasets required to have same label type"]
    ELSE LET a == get_label_shape(self)
             b == get_label_shape(other)
         IN  IF ~a.ok THEN a
             ELSE IF ~b.ok THEN b
             ELSE IF a.val # b.val
             THEN [ok |-> FALSE, err |-> "DeepchecksValueError", msg |-> SameShapeMsg]
             ELSE [ok |-> TRUE]

\* validate_shared_label(self, other), other being a VisionData (so that
\* validate_dataset(other) passes): returns, or the exception raised
validate_shared_label(self, other) ==
    IF ~is_have_label(self).ok THEN is_have_label(self)
    ELSE IF ~is_have_label(other).ok THEN is_have_label(other)
    ELSE IF is_have_label(self).val # is_have_label(other).val
    THEN [ok |-> FALSE, err |-> "DeepchecksValueError",
          msg |-> "Datasets required to both either have or don't have labels"]
    ELSE IF self.task_type # other.task_type
    THEN [ok |-> FALSE, err |-> "DeepchecksValueError",
          msg |-> "Datasets required to have same label type"]
    ELSE IF self.task_type = Some("object_detection")
    THEN LET a == get_label_shape(self)
         IN  IF ~a.ok THEN a
             ELSE IF a.val = <<>>
             THEN [ok |-> FALSE, err |-> "ValueError", msg |-> "not enough values to unpack"]
             ELSE LET b == get_label_shape(other)
                  IN  IF ~b.ok THEN b
                      ELSE IF b.val = <<>>
                      THEN [ok |-> FALSE, err |-> "ValueError",
                            msg |-> "not enough values to unpack"]
                      ELSE IF DropFirst(a.val) # DropFirst(b.val)
                      THEN [ok |-> FALSE, err |-> "DeepchecksValueError",
                            msg |-> SameShapeMsg]
                      ELSE [ok |-> TRUE]
    ELSE IF self.task_type = Some("semantic_segmentation")
    THEN [ok |-> FALSE, err |-> "NotImplementedError", msg |-> ""]
    ELSE LET a == get_label_shape(self)
         IN  IF ~a.ok THEN a
             ELSE LET b == get_label_shape(other)
                  IN  IF ~b.ok THEN b
                      ELSE IF a.val # b.val
                      THEN [ok |-> FALSE, err |-> "DeepchecksValueError",
                            msg |-> SameShapeMsg]
                      ELSE [ok |-> TRUE]

-----------------------------------------------------------------------------
(* Specification SpecValidate: validate_shared_label on every pair of      *)
(* VisionData objects built over sources of one record and over sources    *)
(* that yield no batch.                                                    *)

\* label shapes the formatters produce: a detection label is (boxes, width),
\* a classification label a scalar or a vector
ShapesOf(label_transformer) ==
    IF label_transformer = Some("DetectionLabelFormatter")
    THEN {<<1, 5>>, <<2, 5>>, <<2, 6>>}
    ELSE IF label_transformer = Some("SegmentationLabelFormatter")
    THEN {<<2, 2>>, <<3, 3>>}
    ELSE {<<>>, <<3>>}

\* the formatters of Spec and a formatter of segmentation masks, which like
\* every other BaseLabelFormatter is neither of the two types __init__ knows
ValidationFormatters == LabelTransformers \cup {Some("SegmentationLabelFormatter")}

ValidationDatasets(label_transformer) ==
    { [iterable |-> FALSE, labels |-> <<0>>, has_label |-> FALSE, label_ok |-> FALSE,
       label_shape |-> <<>>],
      [iterable |-> FALSE, labels |-> <<>>, has_label |-> TRUE, label_ok |-> TRUE,
       label_shape |-> <<>>] }
    \cup
    { [iterable |-> FALSE, labels |-> <<0>>, has_label |-> TRUE, label_ok |-> okay,
       label_shape |-> shape] :
        okay \in BOOLEAN, shape \in ShapesOf(label_transformer) }

ValidationObjects ==
    UNION { { VisionData_init(UserLoader(d, DefaultProps), None, lt, 1, 0) :
                d \in ValidationDatasets(lt) } : lt \in ValidationFormatters }

InitValidate ==
    /\ np_state = UnseededState
    /\ IdleSampler
    /\ IdleObjects
    /\ IdleVision
    /\ IdleCheck
    /\ args \in [self : ValidationObjects, other : ValidationObjects]
    /\ ret = None

Call_validate_shared_label ==
    /\ ret = None
    /\ ret' = validate_shared_label(args.self, args.other)
    /\ UNCHANGED <<np_state, samplerVars, visionVars, checkVars, args, objectVars>>

NextValidate == Call_validate_shared_label

SpecValidate == InitValidate /\ [][NextValidate]_vars

\* a source with no record yields no batch
NoBatch ==
    DatasetLen(args.self._data.dataset) = 0 \/ DatasetLen(args.other._data.dataset) = 0
PresenceDiffers == args.self._data.dataset.has_label # args.other._data.dataset.has_label
TaskTypesDiffer == args.self.task_type # args.other.task_type
LabelNotValid == args.self._label_valid # None \/ args.other._label_valid # None
\* the shape rule: detection compares the shapes without the box count,
\* every other task type the full shapes
ShapesDiffer ==
    IF args.self.task_type = Some("object_detection")
    THEN DropFirst(args.self._data.dataset.label_shape)
            # DropFirst(args.other._data.dataset.label_shape)
    ELSE args.self._data.dataset.label_shape # args.other._data.dataset.label_shape

\* C4 (as claimed): the call fails exactly when label presence differs, the
\* task types differ, or the canonical label shapes differ.
C4_FailsExactlyOnThreeCauses ==
    ret # None =>
        (~ret.ok <=> (PresenceDiffers \/ TaskTypesDiffer \/ ShapesDiffer))

\* C4 (amended): the call fails exactly when, in this order, a source yields
\* no batch (StopIteration), label presence differs, the task types differ,
\* the label of self or of other is not valid (get_label_shape raises), or
\* the label shapes differ under the shape rule; the exception names the
\* first cause that holds.
C4_FailsExactlyOnListedCauses ==
    ret # None =>
        /\ ~ret.ok <=> (NoBatch \/ PresenceDiffers \/ TaskTypesDiffer \/ LabelNotValid
                            \/ ShapesDiffer)
        /\ NoBatch => ret.err = "StopIteration"
        /\ (~NoBatch /\ ~ret.ok) => ret.err = "DeepchecksValueError"
        /\ (~NoBatch /\ PresenceDiffers) =>
              ret.msg = "Datasets required to both either have or don't have labels"
        /\ (~NoBatch /\ ~PresenceDiffers /\ TaskTypesDiffer) =>
              ret.msg = "Datasets required to have same label type"
        /\ (~NoBatch /\ ~PresenceDiffers /\ ~TaskTypesDiffer /\ LabelNotValid) =>
              ret.msg = IF args.self._label_valid # None
                        THEN args.self._label_valid.val
                        ELSE args.other._label_valid.val
        /\ (~NoBatch /\ ~PresenceDiffers /\ ~TaskTypesDiffer /\ ~LabelNotValid
                /\ ShapesDiffer) =>
              ret.msg = SameShapeMsg

\* C4 witness: two valid detection datasets whose first labels differ only
\* in the number of boxes pass
C4_Witness ==
    /\ ret # None
    /\ ret.ok
    /\ args.self.task_type = Some("object_detection")
    /\ args.self._data.dataset.label_shape # args.other._data.dataset.label_shape

\* C16: validation of two VisionData objects built over segmentation data
\* with a segmentation label formatter never returns normally.
C16_SegmentationValidationRaises ==
    (/\ ret # None
     /\ args.self.label_transformer = Some("SegmentationLabelFormatter")
     /\ args.other.label_transformer = Some("SegmentationLabelFormatter")) => ~ret.ok

-----------------------------------------------------------------------------
(* class SimpleModelComparison: construction, initialize_run, update.      *)
(* A metric accumulator is the sequence of (predictions, labels) pairs     *)
(* its update() received.  Probabilities in a prediction vector are 0 or 1.*)

_allowed_strategies == {"most_frequent", "prior", "stratified", "uniform"}

ShowOnlyModes == {"largest", "smallest", "random", "best", "worst"}

SimpleModelComparison_init_NoStrategyCheck(scorers, strategy, n_to_show, show_only, metric_to_show_by, class_list_to_show) ==
    IF class_list_to_show = None /\ show_only \notin ShowOnlyModes
    THEN [ok |-> FALSE, err |-> "DeepchecksValueError"]
    ELSE IF /\ class_list_to_show = None
            /\ scorers # None
            /\ show_only \in {"best", "worst"}
            /\ metric_to_show_by = None
    THEN [ok |-> FALSE, err |-> "DeepchecksValueError"]
    ELSE [ok |-> TRUE,
          val |-> [strategy |-> strategy, scorers |-> scorers, n_to_show |-> n_to_show,
                   class_list_to_show |-> class_list_to_show,
                   show_only |-> IF class_list_to_show = None THEN Some(show_only) ELSE None,
                   metric_to_show_by |-> metric_to_show_by,
                   _test_scorers |-> None, _perfect_scorers |-> None]]

\* __init__: the object, or the exception.  scorers, metric_to_show_by and
\* class_list_to_show are None or Some(value).
SimpleModelComparison_init(scorers, strategy, n_to_show, show_only, metric_to_show_by, class_list_to_show) ==
    IF strategy \notin _allowed_strategies
    THEN [ok |-> FALSE, err |-> "DeepchecksValueError"]
    ELSE IF class_list_to_show = None /\ show_only \notin ShowOnlyModes
    THEN [ok |-> FALSE, err |-> "DeepchecksValueError"]
    ELSE IF /\ class_list_to_show = None
            /\ scorers # None
            /\ show_only \in {"best", "worst"}
            /\ metric_to_show_by = None
    THEN [ok |-> FALSE, err |-> "DeepchecksValueError"]
    ELSE [ok |-> TRUE,
          val |-> [strategy |-> strategy, scorers |-> scorers, n_to_show |-> n_to_show,
                   class_list_to_show |-> class_list_to_show,
                   show_only |-> IF class_list_to_show = None THEN Some(show_only) ELSE None,
                   metric_to_show_by |-> metric_to_show_by,
                   _test_scorers |-> None, _perfect_scorers |-> None]]

\* the metric names: 'F1' by default, else the keys of get_scorers_dict
MetricNames(scorers) == IF scorers = None THEN {"F1"} ELSE Range(scorers.val)

\* a fresh accumulator per metric
NewScorers(scorers) == [m \in MetricNames(scorers) |-> <<>>]

\* initialize_run(context): context.assert_task_type(CLASSIFICATION), then
\* two independent accumulator sets
initialize_run(self, ctx) ==
    IF ctx.task_type # Some("classification")
    THEN [ok |-> FALSE, err |-> "DeepchecksValueError", self |-> self]
    ELSE [ok |-> TRUE,
          self |-> [self EXCEPT !._test_scorers = Some(NewScorers(self.scorers)),
                                !._perfect_scorers = Some(NewScorers(self.scorers))]]

\* np.zeros((len(label), len(prediction[0]))) with [i, label[i]] = 1: a
\* label from -width counts from the last column, any other label outside
\* 0..width-1 raises IndexError
OneHotRows(label, width) ==
    IF \E i \in DOMAIN label : label[i] >= width \/ label[i] < -width
    THEN [ok |-> FALSE, err |-> "IndexError"]
    ELSE [ok |-> TRUE,
          val |-> [i \in DOMAIN label |->
                      [c \in 1..width |->
                          IF c = (IF label[i] < 0 THEN label[i] + width ELSE label[i]) + 1
                          THEN 1 ELSE 0]]]

\* metric.update(pair) on every accumulator of a set
UpdateAll(accumulators, pair) == [m \in DOMAIN accumulators |-> Append(accumulators[m], pair)]

\* update(context, batch, dataset_kind): the object afterwards and whether
\* the call returned; the given-model accumulators are updated (lines
\* 134-135) before the perfect predictions are built (lines 138-139)
update(self, ctx, batch, dataset_kind) ==
    IF dataset_kind = "TEST" /\ ctx.train.task_type = Some("classification")
    THEN LET label == batch.numpy_labels
             prediction == batch.numpy_predictions
             given == [self EXCEPT
                          !._test_scorers = Some(UpdateAll(@.val, <<prediction, label>>))]
             perfect_predictions ==
                 IF prediction = <<>> THEN [ok |-> FALSE, err |-> "IndexError"]
                 ELSE OneHotRows(label, Len(prediction[1]))
         IN  IF ~perfect_predictions.ok
             THEN [ok |-> FALSE, err |-> perfect_predictions.err, self |-> given]
             ELSE [ok |-> TRUE,
                   self |-> [given EXCEPT
                                !._perfect_scorers =
                                    Some(UpdateAll(@.val, <<perfect_predictions.val, label>>))]]
    ELSE [ok |-> TRUE, self |-> self]

\* list(self._test_scorers.keys())[0]
FirstMetric(scorers) == IF scorers = None THEN "F1" ELSE scorers.val[1]

\* compute(context), as far as it changes the check: with display on and
\* no metric_to_show_by given (None or the empty string) the first metric
\* is stored in the field (lines 169-171)
compute(self, ctx) ==
    IF ctx.with_display /\ self.metric_to_show_by \in {None, Some("")}
    THEN [self EXCEPT !.metric_to_show_by = Some(FirstMetric(self.scorers))]
    ELSE self

-----------------------------------------------------------------------------
(* Specification SpecCompare: the driver constructs the check, initializes *)
(* the run, feeds it train and test batches one at a time and computes.    *)

MaxUpdates == 3      \* update calls per run

\* batches of a two-class classifier: a label per sample, a probability
\* vector per sample.  The last three are a batch with a label the
\* predictions have no column for, one with a label below minus the number
\* of columns, and the empty batch.
Batches ==
    { [numpy_labels |-> <<0>>, numpy_predictions |-> << <<1, 0>> >>],
      [numpy_labels |-> <<1, 0>>, numpy_predictions |-> << <<1, 0>>, <<0, 1>> >>],
      [numpy_labels |-> <<1>>, numpy_predictions |-> << <<0, 1>> >>],
      [numpy_labels |-> <<2>>, numpy_predictions |-> << <<1, 0>> >>],
      [numpy_labels |-> <<-3>>, numpy_predictions |-> << <<1, 0>> >>],
      [numpy_labels |-> <<>>, numpy_predictions |-> <<>>] }

DatasetKinds == {"TRAIN", "TEST"}

\* the contexts of a run: the task type of the train split, whether the
\* result is to be displayed
Contexts == { [task_type |-> t, train |-> [task_type |-> t], with_display |-> d] :
                t \in {Some("classification"), Some("object_detection")},
                d \in BOOLEAN }

\* the check uses a strategy that draws nothing from np.random
InitCompare ==
    /\ np_state = UnseededState
    /\ IdleSampler
    /\ IdleObjects
    /\ IdleVision
    /\ IdleCall
    /\ \E scorers \in {None, Some(<<"accuracy", "precision">>)},
          metric_to_show_by \in {None, Some("precision")} :
          check = SimpleModelComparison_init(scorers, "most_frequent", 20, "largest",
                                             metric_to_show_by, None).val
    /\ context \in Contexts
    /\ fed = <<>>

Do_initialize_run ==
    /\ check._test_scorers = None
    /\ check' = initialize_run(check, context).self
    /\ UNCHANGED <<np_state, samplerVars, visionVars, callVars, context, fed, objectVars>>

\* fed records the split, the batch and whether the call returned
Do_update(batch, dataset_kind) ==
    /\ check._test_scorers # None
    /\ Len(fed) < MaxUpdates
    /\ LET r == update(check, context, batch, dataset_kind)
       IN  /\ check' = r.self
           /\ fed' = Append(fed, <<dataset_kind, batch, r.ok>>)
    /\ UNCHANGED <<np_state, samplerVars, visionVars, callVars, context, objectVars>>

Do_compute ==
    /\ check._test_scorers # None
    /\ check' = compute(check, context)
    /\ last' = [op |-> "compute"]
    /\ UNCHANGED <<np_state, samplerVars, vd, scans, first_spc, callVars, context, fed,
                   objectVars>>

NextCompare ==
    \/ Do_initialize_run
    \/ \E batch \in Batches, dataset_kind \in DatasetKinds : Do_update(batch, dataset_kind)
    \/ Do_compute

SpecCompare == InitCompare /\ [][NextCompare]_vars

RECURSIVE TestBatchesOf(_)
\* the test-split batches among the update calls, in the order fed
TestBatchesOf(calls) ==
    IF calls = <<>> THEN <<>>
    ELSE IF calls[1][1] = "TEST"
         THEN <<calls[1][2]>> \o TestBatchesOf(Tail(calls))
         ELSE TestBatchesOf(Tail(calls))

\* the given-model accumulators hold the pairs of the batches `given`, the
\* perfect-model ones the one-hot rows at the labels of the batches `perfect`
AccumulatorsHold(given, perfect) ==
    /\ DOMAIN check._test_scorers.val = MetricNames(check.scorers)
    /\ DOMAIN check._perfect_scorers.val = MetricNames(check.scorers)
    /\ \A m \in MetricNames(check.scorers) :
          /\ check._test_scorers.val[m] =
                [k \in DOMAIN given |->
                    <<given[k].numpy_predictions, given[k].numpy_labels>>]
          /\ Len(check._perfect_scorers.val[m]) = Len(perfect)
          /\ \A k \in DOMAIN perfect :
                LET batch == perfect[k]
                    fedPair == check._perfect_scorers.val[m][k]
                IN  /\ fedPair[2] = batch.numpy_labels
                    /\ DOMAIN fedPair[1] = DOMAIN batch.numpy_labels
                    /\ \A i \in DOMAIN fedPair[1] :
                          /\ Len(fedPair[1][i]) = Len(batch.numpy_predictions[1])
                          /\ \A c \in DOMAIN fedPair[1][i] :
                                fedPair[1][i][c] =
                                    IF c - 1 = batch.numpy_labels[i] THEN 1 ELSE 0

\* C5: every given-model and perfect-model accumulator has
\* received exactly one update per test-split batch, in the order fed
\* (given: the batch's predictions; perfect: one-hot rows at the labels),
\* and none for a train-split batch.
C5_OnlyTestBatchesAccumulate ==
    check._test_scorers # None =>
        AccumulatorsHold(TestBatchesOf(fed), TestBatchesOf(fed))

-----------------------------------------------------------------------------
(* Specification SpecConstruct: the check is constructed from arguments    *)
(* of every kind, valid and not.                                           *)

ConstructorArguments ==
    [scorers : {None, Some(<<"accuracy", "precision">>)},
     strategy : _allowed_strategies \cup {"median"},
     n_to_show : {20},
     show_only : ShowOnlyModes \cup {"biggest"},
     metric_to_show_by : {None, Some("accuracy")},
     class_list_to_show : {None, Some(<<0>>)}]

InitConstruct ==
    /\ np_state = UnseededState
    /\ IdleSampler
    /\ IdleObjects
    /\ IdleVision
    /\ IdleCheck
    /\ args \in ConstructorArguments
    /\ ret = None

Construct_check ==
    /\ ret = None
    /\ LET r == SimpleModelComparison_init(args.scorers, args.strategy, args.n_to_show,
                                           args.show_only, args.metric_to_show_by,
                                           args.class_list_to_show)
       IN  /\ ret' = r
           /\ check' = IF r.ok THEN r.val ELSE check
    /\ UNCHANGED <<np_state, samplerVars, visionVars, args, context, fed, objectVars>>

NextConstruct == Construct_check

SpecConstruct == InitConstruct /\ [][NextConstruct]_vars

BadStrategy == args.strategy \notin {"most_frequent", "prior", "stratified", "uniform"}
BadShowOnly == args.show_only \notin {"largest", "smallest", "random", "best", "worst"}
MissingMetricToShowBy ==
    /\ args.scorers # None
    /\ args.show_only \in {"best", "worst"}
    /\ args.metric_to_show_by = None

\* C14 (as claimed): construction fails whenever the strategy is unknown,
\* whenever show_only is unknown, and whenever custom scorers come with
\* show_only best or worst and no metric_to_show_by, whatever the other
\* arguments are, an explicit class_list_to_show included.
C14_ConfigErrorsAtConstruction ==
    ret # None =>
        ((BadStrategy \/ BadShowOnly \/ MissingMetricToShowBy) => ~ret.ok)

\* C14 (amended): construction fails whenever the strategy is unknown, and,
\* when no class_list_to_show is given, whenever show_only is unknown or
\* custom scorers come with show_only best or worst and no
\* metric_to_show_by; with a class_list_to_show, show_only and
\* metric_to_show_by are ignored and a known strategy suffices.
C14_ConfigErrorsUnlessClassList ==
    ret # None =>
        /\ BadStrategy => ~ret.ok
        /\ (args.class_list_to_show = None /\ (BadShowOnly \/ MissingMetricToShowBy))
              => ~ret.ok
        /\ (args.class_list_to_show # None /\ ~BadStrategy) => ret.ok
        /\ ~ret.ok => (ret.err = "DeepchecksValueError" /\ check = None)

\* C14 witness: custom scorers, show_only best, no metric_to_show_by and no
\* class list: the constructor raised
C14_Witness ==
    /\ ret # None
    /\ ~ret.ok
    /\ ~BadStrategy
    /\ ~BadShowOnly
    /\ MissingMetricToShowBy
    /\ args.class_list_to_show = None

-----------------------------------------------------------------------------
(* IEEE 754 binary64, the float of Python and numpy: a finite number is    *)
(* (-1)^s * m * 2^e with 2^52 <= m < 2^53 (m = 0, e = 0, s = 0 for zero),  *)
(* m held as <<high, low>> in base 2^27; every operation returns the       *)
(* exact result rounded to the nearest number, ties to the even m.         *)
(* Exponents stay far inside the format's range for the values of scores,  *)
(* counts and gains; the sign of a zero is not kept.                       *)

Abs(x) == IF x < 0 THEN -x ELSE x

Base == 134217728          \* 2^27
NZero == <<0, 0>>
NCarry(hi, lo) == <<hi + lo \div Base, lo % Base>>
NAdd(a, b) == NCarry(a[1] + b[1], a[2] + b[2])
\* a - b for a >= b
NSub(a, b) ==
    IF a[2] >= b[2] THEN <<a[1] - b[1], a[2] - b[2]>>
    ELSE <<a[1] - b[1] - 1, a[2] + Base - b[2]>>
NLt(a, b) == a[1] < b[1] \/ (a[1] = b[1] /\ a[2] < b[2])
\* a * 2^k and a \div 2^k for k in 0..27
NShl(a, k) == <<a[1] * 2^k + a[2] \div 2^(27 - k), (a[2] % 2^(27 - k)) * 2^k>>
NShr(a, k) == <<a[1] \div 2^k, (a[1] % 2^k) * 2^(27 - k) + a[2] \div 2^k>>
NDouble(a) == <<2 * a[1] + a[2] \div 67108864, 2 * (a[2] % 67108864)>>
NHalf(a) == <<a[1] \div 2, (a[1] % 2) * 67108864 + a[2] \div 2>>
NOdd(a) == a[2] % 2 = 1

NaN == [kind |-> "nan"]
Inf(s) == [kind |-> "inf", s |-> s]
FZero == [kind |-> "finite", s |-> 0, m |-> NZero, e |-> 0]
IsFinite(x) == x.kind = "finite"
IsZero(x) == IsFinite(x) /\ x.m = NZero

RECURSIVE ShiftUp(_, _)
\* m # 0 below 2^53 brought into 2^52 .. 2^53 - 1
ShiftUp(m, e) ==
    IF m[1] >= 33554432 THEN [m |-> m, e |-> e]
    ELSE IF m[1] = 0
    THEN IF m[2] >= 67108864 THEN [m |-> NShl(m, 26), e |-> e - 26]
         ELSE ShiftUp(<<m[2], 0>>, e - 27)
    ELSE LET k == CHOOSE j \in {16, 8, 4, 2, 1} :
                      /\ m[1] < 67108864 \div 2^j
                      /\ \A i \in {16, 8, 4, 2, 1} : m[1] < 67108864 \div 2^i => i <= j
         IN  ShiftUp(NShl(m, k), e - k)

RECURSIVE ShiftDown(_, _, _, _)
\* m brought below 2^53; guard is the last bit shifted out, sticky whether
\* a one was shifted out before it
ShiftDown(m, e, guard, sticky) ==
    IF m[1] < 67108864 THEN [m |-> m, e |-> e, guard |-> guard, sticky |-> sticky]
    ELSE ShiftDown(NHalf(m), e + 1, NOdd(m), sticky \/ guard)

\* the double nearest to (-1)^s * m * 2^e, m below 2^57: round to nearest,
\* ties to even
Round(s, m, e) ==
    IF m = NZero THEN FZero
    ELSE IF m[1] < 67108864
    THEN With(ShiftUp(m, e), LAMBDA up :
              [kind |-> "finite", s |-> s, m |-> up.m, e |-> up.e])
    ELSE With(ShiftDown(m, e, FALSE, FALSE), LAMBDA down :
         With(IF down.guard /\ (down.sticky \/ NOdd(down.m))
              THEN NAdd(down.m, <<0, 1>>) ELSE down.m,
              LAMBDA r :
                 IF r[1] >= 67108864
                 THEN [kind |-> "finite", s |-> s, m |-> NHalf(r), e |-> down.e + 1]
                 ELSE [kind |-> "finite", s |-> s, m |-> r, e |-> down.e]))

\* float(n) of an int of at most 31 bits
FromInt(n) == Round(IF n < 0 THEN 1 ELSE 0, NCarry(0, Abs(n)), 0)

FNeg(x) ==
    IF x.kind = "nan" \/ IsZero(x) THEN x ELSE [x EXCEPT !.s = 1 - @]

\* m shifted right by k bits, k in 0..27, the lowest bit set if a one was lost
NShrJam(m, k) ==
    With(NShr(m, k), LAMBDA shifted :
         IF m[2] % 2^k # 0 /\ ~NOdd(shifted) THEN NAdd(shifted, <<0, 1>>) ELSE shifted)

RECURSIVE ShiftJam(_, _)
\* m below 2^57 shifted right by d bits, the lowest bit set if a one was lost
ShiftJam(m, d) ==
    IF m = NZero THEN m
    ELSE IF d >= 57 THEN <<0, 1>>
    ELSE IF d <= 27 THEN NShrJam(m, d)
    ELSE ShiftJam(NShrJam(m, 27), d - 27)

\* x + y of finite numbers: the one of the lower exponent is aligned under
\* three extra bits
FAddFinite(x, y) ==
    IF IsZero(x) THEN y
    ELSE IF IsZero(y) THEN x
    ELSE LET e == IF x.e > y.e THEN x.e ELSE y.e
         IN  With(ShiftJam(NShl(x.m, 3), e - x.e), LAMBDA mx :
             With(ShiftJam(NShl(y.m, 3), e - y.e), LAMBDA my :
             With(IF x.s = y.s THEN [s |-> x.s, m |-> NAdd(mx, my)]
                  ELSE IF NLt(mx, my) THEN [s |-> y.s, m |-> NSub(my, mx)]
                  ELSE [s |-> x.s, m |-> NSub(mx, my)],
                  LAMBDA sum : Round(sum.s, sum.m, e - 3))))

FAdd(x, y) ==
    IF x.kind = "nan" \/ y.kind = "nan" THEN NaN
    ELSE IF x.kind = "inf"
    THEN IF y.kind = "inf" /\ y.s # x.s THEN NaN ELSE x
    ELSE IF y.kind = "inf" THEN y
    ELSE FAddFinite(x, y)

FSub(x, y) == FAdd(x, FNeg(y))

\* one more bit of the quotient: st = [q, r, d] with r < d
DivisionStep(st) ==
    With(NDouble(st.r), LAMBDA r2 :
         IF NLt(r2, st.d) THEN [st EXCEPT !.q = NDouble(@), !.r = r2]
         ELSE [st EXCEPT !.q = NAdd(NDouble(@), <<0, 1>>), !.r = NSub(r2, st.d)])

RECURSIVE LongDivision(_, _)
\* n >= 1 more bits of the quotient, the first half of them first; the
\* remainder stays below the divisor
LongDivision(st, n) ==
    IF n = 1 THEN DivisionStep(st)
    ELSE With(LongDivision(st, n \div 2), LAMBDA half :
              LongDivision(half, n - n \div 2))

\* x / y in numpy: nan for 0 / 0, an infinity for a division by zero
FDiv(x, y) ==
    IF x.kind = "nan" \/ y.kind = "nan" THEN NaN
    ELSE IF x.kind = "inf"
    THEN IF y.kind = "inf" THEN NaN ELSE Inf((x.s + y.s) % 2)
    ELSE IF y.kind = "inf" THEN FZero
    ELSE IF IsZero(y) THEN IF IsZero(x) THEN NaN ELSE Inf(x.s)
    ELSE IF IsZero(x) THEN FZero
    ELSE LET first == IF NLt(x.m, y.m) THEN [q |-> NZero, r |-> x.m, d |-> y.m]
                      ELSE [q |-> <<0, 1>>, r |-> NSub(x.m, y.m), d |-> y.m]
         IN  With(LongDivision(first, 55), LAMBDA div :
                  Round((x.s + y.s) % 2,
                        IF div.r # NZero /\ ~NOdd(div.q)
                        THEN NAdd(div.q, <<0, 1>>) ELSE div.q,
                        x.e - y.e - 55))

\* |x| < |y| of finite numbers
MagLt(x, y) ==
    IF IsZero(x) THEN ~IsZero(y)
    ELSE IF IsZero(y) THEN FALSE
    ELSE x.e < y.e \/ (x.e = y.e /\ NLt(x.m, y.m))

\* x < y; false when either is nan
FLt(x, y) ==
    IF x.kind = "nan" \/ y.kind = "nan" THEN FALSE
    ELSE IF x.kind = "inf" THEN x.s = 1 /\ y # x
    ELSE IF y.kind = "inf" THEN y.s = 0
    ELSE IF x.s # y.s THEN x.s = 1
    ELSE IF x.s = 0 THEN MagLt(x, y)
    ELSE MagLt(y, x)

FEq(x, y) == x.kind # "nan" /\ x = y
FLe(x, y) == FLt(x, y) \/ FEq(x, y)

\* the float of the decimal literal n / d
Dec(n, d) == FDiv(FromInt(n), FromInt(d))

\* the float of a score given in hundredths
Hundredths == [n \in 0..100 |-> Dec(n, 100)]
F(x) == Hundredths[x]

-----------------------------------------------------------------------------
(* deepchecks.utils.metrics.get_gain, by the spec's definition of gain:    *)
(* (score - base) / (perfect - base) clamped to [-max_gain, max_gain].     *)
(* Where the distance from perfect is zero the gain is 0 if the score      *)
(* equals the base and -max_gain otherwise.                                *)

get_gain(base_score, score, perfect_score, max_gain) ==
    With(FSub(perfect_score, base_score), LAMBDA distance_from_perfect :
    With(FSub(score, base_score), LAMBDA scores_diff :
         IF IsZero(distance_from_perfect)
         THEN IF IsZero(scores_diff) THEN FZero ELSE FNeg(max_gain)
         ELSE With(FDiv(scores_diff, distance_from_perfect), LAMBDA ratio :
                   IF FLt(ratio, FNeg(max_gain)) THEN FNeg(max_gain)
                   ELSE IF FLt(max_gain, ratio) THEN max_gain
                   ELSE ratio)))

-----------------------------------------------------------------------------
(* The result table of compute(): a sequence of rows                       *)
(* [Model, Metric, Class, ClassName, Number_of_samples, Value].  A score   *)
(* is held by its number of hundredths n, standing for the float of the    *)
(* literal n/100: F is one-to-one and increasing on 0..100, so equality    *)
(* and order of the floats are those of the numbers; arithmetic on scores  *)
(* goes through F.                                                         *)

ModelNames == <<"Given Model", "Perfect Model", "Simple Model">>

\* the class names of the dataset's label map
ClassNameOf(c) == IF c = 0 THEN "cat" ELSE IF c = 1 THEN "dog" ELSE "other"

\* position of a model name in descending string order
ModelRank(name) ==
    IF name = "Simple Model" THEN 3 ELSE IF name = "Perfect Model" THEN 2 ELSE 1

\* a sorts strictly before b under sort_values(by=['Model', 'Value'], ascending=False)
RowBefore(a, b) ==
    \/ ModelRank(a.Model) > ModelRank(b.Model)
    \/ ModelRank(a.Model) = ModelRank(b.Model) /\ a.Value.val > b.Value.val

RECURSIVE InsertRow(_, _)
\* stable insertion: after every row that does not sort strictly after it
InsertRow(sorted, row) ==
    IF sorted = <<>> THEN <<row>>
    ELSE IF RowBefore(row, sorted[1]) THEN <<row>> \o sorted
    ELSE <<sorted[1]>> \o InsertRow(Tail(sorted), row)

RECURSIVE SortRows(_, _)
SortRows(sorted, rest) ==
    IF rest = <<>> THEN sorted
    ELSE SortRows(InsertRow(sorted, rest[1]), Tail(rest))

\* dropna keeps a row with no missing value in any column: the number of
\* samples is missing for a class name the test labels do not hold, the
\* value where the metric is undefined
HasValue(row) == row.Number_of_samples # None /\ row.Value # None

\* compute(), lines 153-167: one frame per model (a row per metric and
\* class, a missing value where the metric is undefined), the number of
\* samples looked up by class name in labels, the test split's
\* get_cache()['labels'], the frames concatenated, rows with missing values
\* dropped, sorted by (Model, Value) descending.
\* values[model][metric][class] is None or Some(score); the table keeps the
\* scores themselves.
ResultsDf(values, metrics, classes, labels) ==
    LET perModel == Len(metrics) * Len(classes)
        rowAt(k) ==
            LET model == ModelNames[((k - 1) \div perModel) + 1]
                within == (k - 1) % perModel
                metric == metrics[(within \div Len(classes)) + 1]
                class == classes[(within % Len(classes)) + 1]
            IN  [Model |-> model, Metric |-> metric, Class |-> class,
                 ClassName |-> ClassNameOf(class),
                 Number_of_samples |-> IF ClassNameOf(class) \in DOMAIN labels
                                       THEN Some(labels[ClassNameOf(class)])
                                       ELSE None,
                 Value |-> values[model][metric][class]]
        concat == [k \in 1..(3 * perModel) |-> rowAt(k)]
        sorted == SortRows(<<>>, SelectSeq(concat, HasValue))
    IN  [k \in DOMAIN sorted |->
            [sorted[k] EXCEPT !.Value = @.val, !.Number_of_samples = @.val]]

-----------------------------------------------------------------------------
(* calculate_condition_logic and average_scores *)

IsGiven(row) == row.Model = "Given Model"
IsPerfect(row) == row.Model = "Perfect Model"
IsSimple(row) == row.Model = "Simple Model"

RECURSIVE Unique(_)
\* Series.unique(): the distinct values in order of first appearance
Unique(values) ==
    IF values = <<>> THEN <<>>
    ELSE LET front == Unique(SubSeq(values, 1, Len(values) - 1))
             x == values[Len(values)]
         IN  IF x \in Range(front) THEN front ELSE Append(front, x)

MetricsOf(rows) == Unique([k \in DOMAIN rows |-> rows[k].Metric])

\* rows.loc[(Metric == metric) & (Class == class)]['Value'].values[0]:
\* the first matching row's value, None for the IndexError of no match
FirstValue(rows, metric, class) ==
    LET hits == {k \in DOMAIN rows : rows[k].Metric = metric /\ rows[k].Class = class}
    IN  IF hits = {} THEN None
        ELSE Some(rows[CHOOSE k \in hits : \A j \in hits : k <= j].Value)

\* rows.loc[Metric == metric]['Value'].values[0]
FirstValueOfMetric(rows, metric) ==
    LET hits == {k \in DOMAIN rows : rows[k].Metric = metric}
    IN  IF hits = {} THEN None
        ELSE Some(rows[CHOOSE k \in hits : \A j \in hits : k <= j].Value)

\* `if include_classes and curr_class not in include_classes: continue`
Skipped(include_classes, class) ==
    /\ include_classes # None
    /\ include_classes.val # <<>>
    /\ class \notin Range(include_classes.val)

EmptyDict == [x \in {} |-> x]
\* min_gain = (np.inf, ''): no gain saved, the message empty
NoMinGain == [gain |-> Inf(0), metric |-> "", class_name |-> None]

\* update_min_gain: a strictly smaller gain replaces the saved one (line
\* 296); the message is made of the gain, the metric and the class name
update_min_gain(min_gain, gain, metric, class_name) ==
    IF FLt(gain, min_gain.gain)
    THEN [gain |-> gain, metric |-> metric, class_name |-> class_name]
    ELSE min_gain

PerClassStep_NoPerfectSkip(st, scores_row, metric, call) ==
    IF st.err # None THEN st
    ELSE IF Skipped(call.include_classes, scores_row.Class) THEN st
    ELSE LET perfect == FirstValue(SelectSeq(call.result, IsPerfect), metric, scores_row.Class)
         IN  IF perfect = None THEN [st EXCEPT !.err = Some("IndexError")]
             ELSE LET simple == FirstValue(SelectSeq(call.result, IsSimple), metric,
                                           scores_row.Class)
                  IN  IF simple = None THEN [st EXCEPT !.err = Some("IndexError")]
                      ELSE With(get_gain(F(simple.val), F(scores_row.Value),
                                         F(perfect.val), call.max_gain),
                                LAMBDA gain :
                                   [st EXCEPT
                                       !.min_gain = update_min_gain(@, gain, metric,
                                                        Some(scores_row.ClassName)),
                                       !.failed_classes =
                                           IF FLe(gain, call.min_allowed_gain)
                                           THEN [x \in {scores_row.ClassName} |-> gain] @@ @
                                           ELSE @])

PerClassStep_StrictThreshold(st, scores_row, metric, call) ==
    IF st.err # None THEN st
    ELSE IF Skipped(call.include_classes, scores_row.Class) THEN st
    ELSE LET perfect == FirstValue(SelectSeq(call.result, IsPerfect), metric, scores_row.Class)
         IN  IF perfect = None THEN [st EXCEPT !.err = Some("IndexError")]
             ELSE IF scores_row.Value = perfect.val THEN st
             ELSE LET simple == FirstValue(SelectSeq(call.result, IsSimple), metric,
                                           scores_row.Class)
                  IN  IF simple = None THEN [st EXCEPT !.err = Some("IndexError")]
                      ELSE With(get_gain(F(simple.val), F(scores_row.Value),
                                         F(perfect.val), call.max_gain),
                                LAMBDA gain :
                                   [st EXCEPT
                                       !.min_gain = update_min_gain(@, gain, metric,
                                                        Some(scores_row.ClassName)),
                                       !.failed_classes =
                                           IF FLt(gain, call.min_allowed_gain)
                                           THEN [x \in {scores_row.ClassName} |-> gain] @@ @
                                           ELSE @])

\* one pass of the per-class loop body (lines 307-325) on a Given row;
\* st = [err, min_gain, failed_classes]
PerClassStep(st, scores_row, metric, call) ==
    IF st.err # None THEN st
    ELSE IF Skipped(call.include_classes, scores_row.Class) THEN st
    ELSE LET perfect == FirstValue(SelectSeq(call.result, IsPerfect), metric, scores_row.Class)
         IN  IF perfect = None THEN [st EXCEPT !.err = Some("IndexError")]
             ELSE IF scores_row.Value = perfect.val THEN st
             ELSE LET simple == FirstValue(SelectSeq(call.result, IsSimple), metric,
                                           scores_row.Class)
                  IN  IF simple = None THEN [st EXCEPT !.err = Some("IndexError")]
                      ELSE With(get_gain(F(simple.val), F(scores_row.Value),
                                         F(perfect.val), call.max_gain),
                                LAMBDA gain :
                                   [st EXCEPT
                                       !.min_gain = update_min_gain(@, gain, metric,
                                                        Some(scores_row.ClassName)),
                                       !.failed_classes =
                                           IF FLe(gain, call.min_allowed_gain)
                                           THEN [x \in {scores_row.ClassName} |-> gain] @@ @
                                           ELSE @])

RECURSIVE PerClassLoop(_, _, _, _, _)
\* the rows of scores with this metric, in table order, from row k on
PerClassLoop(st, scores, k, metric, call) ==
    IF k > Len(scores) THEN st
    ELSE PerClassLoop(IF scores[k].Metric = metric
                      THEN PerClassStep(st, scores[k], metric, call)
                      ELSE st,
                      scores, k + 1, metric, call)

RECURSIVE PerMetricLoop(_, _, _, _, _)
\* lines 304-328; acc = [err, min_gain, fails]
PerMetricLoop(acc, metrics, k, scores, call) ==
    IF k > Len(metrics) \/ acc.err # None THEN acc
    ELSE With(PerClassLoop([err |-> None, min_gain |-> acc.min_gain,
                            failed_classes |-> EmptyDict],
                           scores, 1, metrics[k], call),
              LAMBDA st :
                 PerMetricLoop([err |-> st.err, min_gain |-> st.min_gain,
                                fails |-> IF st.failed_classes # EmptyDict
                                          THEN [x \in {metrics[k]} |-> st.failed_classes]
                                                   @@ acc.fails
                                          ELSE acc.fails],
                               metrics, k + 1, scores, call))

RECURSIVE AverageRows(_, _, _, _, _, _)
\* the row loop of average_scores for one metric (lines 376-382);
\* sums = [err, model_score, simple_score, total]
AverageRows(sums, scores, k, metric, simple_model_scores, include_classes) ==
    IF k > Len(scores) \/ sums.err # None THEN sums
    ELSE IF scores[k].Metric # metric \/ Skipped(include_classes, scores[k].Class)
    THEN AverageRows(sums, scores, k + 1, metric, simple_model_scores, include_classes)
    ELSE LET simple == FirstValue(simple_model_scores, metric, scores[k].Class)
         IN  IF simple = None
             THEN [sums EXCEPT !.err = Some("IndexError")]
             ELSE AverageRows([sums EXCEPT !.model_score = FAdd(@, F(scores[k].Value)),
                                           !.simple_score = FAdd(@, F(simple.val)),
                                           !.total = @ + 1],
                              scores, k + 1, metric, simple_model_scores, include_classes)

RECURSIVE AverageMetrics(_, _, _, _, _, _)
\* acc = [err, result]: result maps a metric to its Origin and Simple means
AverageMetrics(acc, metrics, k, scores, simple_model_scores, include_classes) ==
    IF k > Len(metrics) \/ acc.err # None THEN acc
    ELSE With(AverageRows([err |-> None, model_score |-> FZero,
                           simple_score |-> FZero, total |-> 0],
                          scores, 1, metrics[k], simple_model_scores,
                          include_classes),
              LAMBDA sums :
         IF sums.err # None THEN [acc EXCEPT !.err = sums.err]
         ELSE IF sums.total = 0 THEN [acc EXCEPT !.err = Some("ZeroDivisionError")]
         ELSE AverageMetrics(
                [acc EXCEPT !.result =
                    [x \in {metrics[k]} |->
                        [Origin |-> FDiv(sums.model_score, FromInt(sums.total)),
                         Simple |-> FDiv(sums.simple_score, FromInt(sums.total))]] @@ @],
                metrics, k + 1, scores, simple_model_scores, include_classes))

\* average_scores(scores, simple_model_scores, include_classes)
average_scores(scores, simple_model_scores, include_classes) ==
    AverageMetrics([err |-> None, result |-> EmptyDict], MetricsOf(scores), 1,
                   scores, simple_model_scores, include_classes)

RECURSIVE AveragedLoop(_, _, _, _, _)
\* lines 331-342; acc = [err, min_gain, fails]
AveragedLoop(acc, metrics, k, averaged, call) ==
    IF k > Len(metrics) \/ acc.err # None THEN acc
    ELSE LET metric == metrics[k]
             models_scores == averaged[metric]
             metric_perfect_score ==
                 FirstValueOfMetric(SelectSeq(call.result, IsPerfect), metric)
         IN  IF metric_perfect_score = None
             THEN [acc EXCEPT !.err = Some("IndexError")]
             ELSE IF FEq(models_scores.Origin, F(metric_perfect_score.val))
             THEN AveragedLoop(acc, metrics, k + 1, averaged, call)
             ELSE With(get_gain(models_scores.Simple, models_scores.Origin,
                                F(metric_perfect_score.val), call.max_gain),
                       LAMBDA gain :
                          AveragedLoop(
                            [acc EXCEPT
                                !.min_gain = update_min_gain(@, gain, metric, None),
                                !.fails = IF FLe(gain, call.min_allowed_gain)
                                          THEN [x \in {metric} |-> gain] @@ @
                                          ELSE @],
                            metrics, k + 1, averaged, call))

\* calculate_condition_logic(result, include_classes, average, max_gain,
\* min_allowed_gain), the arguments in the record call: the ConditionResult
\* (FAIL with the failed entries, PASS with the minimal gain found), or the
\* exception raised
calculate_condition_logic(call) ==
    LET scores == SelectSeq(call.result, IsGiven)
        simple_scores == SelectSeq(call.result, IsSimple)
        metrics == MetricsOf(scores)
        start == [err |-> None, min_gain |-> NoMinGain, fails |-> EmptyDict]
    IN  With(IF ~call.average
             THEN PerMetricLoop(start, metrics, 1, scores, call)
             ELSE With(average_scores(scores, simple_scores, call.include_classes),
                       LAMBDA averaged :
                          IF averaged.err # None
                          THEN [start EXCEPT !.err = averaged.err]
                          ELSE AveragedLoop(start, metrics, 1, averaged.result, call)),
             LAMBDA done :
                IF done.err # None THEN [category |-> done.err.val]
                ELSE IF done.fails # EmptyDict
                THEN [category |-> "FAIL", fails |-> done.fails]
                ELSE [category |-> "PASS", min_gain |-> done.min_gain])

-----------------------------------------------------------------------------
(* Specification SpecGain: the gain condition on result tables assembled   *)
(* by compute() from per-model metric values, some of them undefined.      *)

GainMetrics == <<"F1", "Recall">>
GainClasses == <<0, 1>>

\* (given, perfect, simple) scores of one metric and class, in hundredths;
\* None is an undefined value, whose row compute() drops
ScoreTriples ==
    { <<Some(90), Some(100), Some(50)>>,     \* gain 0.8
      <<Some(55), Some(100), Some(50)>>,     \* gain 0.10000000000000009
      <<Some(52), Some(100), Some(50)>>,     \* gain 0.040000000000000036
      <<Some(0), Some(100), Some(98)>>,      \* gain -48.99999999999996
      <<Some(78), Some(80), Some(50)>>,      \* gain 0.93 under a perfect score of 0.8
      <<Some(90), Some(100), Some(100)>>,    \* simple model already perfect
      <<Some(100), Some(100), Some(50)>>,    \* given model perfect
      <<Some(100), Some(100), None>>,        \* given perfect, no simple row
      <<Some(90), Some(100), None>>,         \* no simple row
      <<Some(90), None, Some(50)>>,          \* no perfect row
      <<None, Some(100), Some(50)>> }        \* no given row

SecondMetricTriples ==
    { <<Some(52), Some(100), Some(50)>>,
      <<Some(100), Some(100), Some(50)>> }

\* (min_allowed_gain, max_gain)
GainThresholds ==
    { <<Dec(1, 10), FromInt(50)>>, <<Dec(8, 10), FromInt(50)>>, <<FromInt(-2), FromInt(1)>> }

\* get_cache()['labels'] of the test split: the number of samples under
\* each class name, a class without samples not among the keys
TestLabelCounts == { [name \in {"cat", "dog"} |-> 5], [name \in {"cat"} |-> 5] }

MetricValues(first, second) ==
    [model \in Range(ModelNames) |->
        [metric \in Range(GainMetrics) |->
            [class \in Range(GainClasses) |->
                (IF metric = "F1" THEN first[class] ELSE second)
                    [ModelRank(model)]]]]

InitGain ==
    /\ np_state = UnseededState
    /\ IdleSampler
    /\ IdleObjects
    /\ IdleVision
    /\ IdleCheck
    /\ \E first \in [Range(GainClasses) -> ScoreTriples],
          second \in SecondMetricTriples,
          labels \in TestLabelCounts,
          include_classes \in {None, Some(<<0>>)},
          average \in BOOLEAN,
          th \in GainThresholds :
          args = [result |-> ResultsDf(MetricValues(first, second), GainMetrics,
                                       GainClasses, labels),
                  include_classes |-> include_classes,
                  average |-> average,
                  max_gain |-> th[2],
                  min_allowed_gain |-> th[1]]
    /\ ret = None

Call_calculate_condition_logic ==
    /\ ret = None
    /\ ret' = calculate_condition_logic(args)
    /\ UNCHANGED <<np_state, samplerVars, visionVars, checkVars, args, objectVars>>

NextGain == Call_calculate_condition_logic

SpecGain == InitGain /\ [][NextGain]_vars

\* the score of a model for (metric, class) in the table, None if no row
ScoreIn(result, model, metric, class) ==
    LET hits == {k \in DOMAIN result : /\ result[k].Model = model
                                       /\ result[k].Metric = metric
                                       /\ result[k].Class = class}
    IN  IF hits = {} THEN None ELSE Some(result[CHOOSE k \in hits : TRUE].Value)

\* the gain as the claim defines it, in floats: (given - simple) /
\* (perfect - simple) clamped to [-max_gain, max_gain]; a simple score
\* equal to the perfect one puts a lower given score at -max_gain
ClaimedGain(given, simple, perfect, max_gain) ==
    IF FEq(perfect, simple) THEN FNeg(max_gain)
    ELSE LET ratio == FDiv(FSub(given, simple), FSub(perfect, simple))
         IN  IF FLt(ratio, FNeg(max_gain)) THEN FNeg(max_gain)
             ELSE IF FLt(max_gain, ratio) THEN max_gain
             ELSE ratio

\* the evaluated (metric, class) entries: a Given row of an included class
\* whose score differs from the perfect score
EvaluatedEntries ==
    { e \in Range(GainMetrics) \X Range(GainClasses) :
        /\ ScoreIn(args.result, "Given Model", e[1], e[2]) # None
        /\ ~Skipped(args.include_classes, e[2])
        /\ ScoreIn(args.result, "Perfect Model", e[1], e[2]) # None
        /\ ScoreIn(args.result, "Simple Model", e[1], e[2]) # None
        /\ ScoreIn(args.result, "Given Model", e[1], e[2])
              # ScoreIn(args.result, "Perfect Model", e[1], e[2]) }

EntryGain(e) ==
    ClaimedGain(F(ScoreIn(args.result, "Given Model", e[1], e[2]).val),
                F(ScoreIn(args.result, "Simple Model", e[1], e[2]).val),
                F(ScoreIn(args.result, "Perfect Model", e[1], e[2]).val),
                args.max_gain)

FailingEntries == { e \in EvaluatedEntries : FLe(EntryGain(e), args.min_allowed_gain) }

\* C6: with average=False the condition, when it returns, returns FAIL
\* exactly when some evaluated entry has gain <= min_allowed_gain, and the
\* failure report lists per metric exactly the classes with such a gain.
C6_FailsExactlyAtOrBelowThreshold ==
    (ret # None /\ ~args.average /\ ret.category \in {"PASS", "FAIL"}) =>
        /\ ret.category = "FAIL" <=> FailingEntries # {}
        /\ ret.category = "FAIL" =>
              /\ DOMAIN ret.fails = {e[1] : e \in FailingEntries}
              /\ \A metric \in DOMAIN ret.fails :
                    /\ DOMAIN ret.fails[metric] =
                          {ClassNameOf(e[2]) : e \in {x \in FailingEntries : x[1] = metric}}
                    /\ \A e \in FailingEntries :
                          e[1] = metric => ret.fails[metric][ClassNameOf(e[2])] = EntryGain(e)

\* C6 witness: FAIL on a gain equal to the threshold (0.9 against 0.5 and
\* 1.0 with min_allowed_gain 0.8), another class of the metric passing
C6_Witness ==
    /\ ret # None
    /\ ~args.average
    /\ ret.category = "FAIL"
    /\ \E e \in FailingEntries : EntryGain(e) = args.min_allowed_gain
    /\ \E e \in EvaluatedEntries : e \notin FailingEntries

\* the Given rows whose score equals the perfect score of their metric and class
PerfectGivenRows ==
    { k \in DOMAIN args.result :
        /\ args.result[k].Model = "Given Model"
        /\ Some(args.result[k].Value) =
              ScoreIn(args.result, "Perfect Model", args.result[k].Metric,
                      args.result[k].Class) }

WithoutRow(rows, k) == SubSeq(rows, 1, k - 1) \o SubSeq(rows, k + 1, Len(rows))

\* what the condition reports with the Given row k taken out of the table
ReportWithout(k) ==
    calculate_condition_logic([args EXCEPT !.result = WithoutRow(args.result, k)])

\* two reports agree on the outcome, on the fail set and on the minimal gain
\* (among equal minimal gains the message names the first one met)
SameReport(a, b) ==
    /\ a.category = b.category
    /\ a.category = "FAIL" => a.fails = b.fails
    /\ a.category = "PASS" =>
          a.min_gain.gain = b.min_gain.gain

\* C7 (as claimed): in the gain condition a (class, metric) pair whose given
\* score equals its perfect score is never in the fail set and contributes
\* nothing to the reported minimal gain: the condition reports what it
\* reports without that pair's Given row, whatever the simple score.
C7_PerfectPairNeverCounts ==
    ret # None =>
        \A k \in PerfectGivenRows :
            /\ SameReport(ret, ReportWithout(k))
            /\ (ret.category = "FAIL" /\ ~args.average
                /\ args.result[k].Metric \in DOMAIN ret.fails) =>
                  \A e \in FailingEntries :
                      (e[1] = args.result[k].Metric
                       /\ ClassNameOf(e[2]) = args.result[k].ClassName)
                      => e[2] # args.result[k].Class

\* C7 (amended): the same, for the per-class condition (average=False).
C7_PerfectPairNeverCountsPerClass ==
    (ret # None /\ ~args.average) =>
        \A k \in PerfectGivenRows :
            /\ SameReport(ret, ReportWithout(k))
            /\ (ret.category = "FAIL" /\ args.result[k].Metric \in DOMAIN ret.fails) =>
                  args.result[k].ClassName \notin DOMAIN ret.fails[args.result[k].Metric]

\* C7 witness: the per-class condition passes and reports a minimal gain
\* while a pair with given = perfect has no Simple Model row at all
C7_Witness ==
    /\ ret # None
    /\ ~args.average
    /\ ret.category = "PASS"
    /\ ret.min_gain # NoMinGain
    /\ \E k \in PerfectGivenRows :
          /\ ~Skipped(args.include_classes, args.result[k].Class)
          /\ ScoreIn(args.result, "Simple Model", args.result[k].Metric,
                     args.result[k].Class) = None

\* C13: every (Metric, Class) pair with a Given Model row in the table has
\* a Perfect Model row and a Simple Model row, and the gain condition's
\* lookups of them never fail.
C13_GivenRowsHaveMatches ==
    /\ \A k \in DOMAIN args.result :
          args.result[k].Model = "Given Model" =>
              /\ ScoreIn(args.result, "Perfect Model", args.result[k].Metric,
                         args.result[k].Class) # None
              /\ ScoreIn(args.result, "Simple Model", args.result[k].Metric,
                         args.result[k].Class) # None
    /\ ret # None => ret.category # "IndexError"

\* the classes the condition is asked about
IncludedClasses == {c \in Range(GainClasses) : ~Skipped(args.include_classes, c)}

\* the scores a row of the table is changed to
OtherScores == {0, 50, 100}

\* the table compute() returns when the score of row k is v instead
WithScore(rows, k, v) ==
    LET changed == [j \in DOMAIN rows |->
                       [rows[j] EXCEPT !.Value = Some(IF j = k THEN v ELSE @)]]
        sorted == SortRows(<<>>, changed)
    IN  [j \in DOMAIN sorted |-> [sorted[j] EXCEPT !.Value = @.val]]

\* PASS or FAIL (or the exception) and the metrics reported as failed
Outcome(report) ==
    [category |-> report.category,
     failed |-> IF report.category = "FAIL" THEN DOMAIN report.fails ELSE {}]

RECURSIVE SumOver(_, _, _)
\* the float sum of a model's scores of a metric over classes, in order
SumOver(model, metric, classes) ==
    IF classes = <<>> THEN FZero
    ELSE FAdd(SumOver(model, metric, SubSeq(classes, 1, Len(classes) - 1)),
              F(ScoreIn(args.result, model, metric, classes[Len(classes)]).val))

\* the mean score of a model over classes
MeanOver(model, metric, classes) ==
    FDiv(SumOver(model, metric, classes), FromInt(Len(classes)))

\* the included classes that have a Given Model row for the metric
AveragedClasses(metric) ==
    SelectSeq(GainClasses,
              LAMBDA c : /\ c \in IncludedClasses
                         /\ ScoreIn(args.result, "Given Model", metric, c) # None)

\* the metric fails by its averaged gain: the gain of the mean scores over
\* the included classes is at most min_allowed_gain
FailsOnAverage(metric) ==
    LET classes == AveragedClasses(metric)
    IN  /\ classes # <<>>
        /\ ~FEq(MeanOver("Given Model", metric, classes),
                MeanOver("Perfect Model", metric, classes))
        /\ FLe(ClaimedGain(MeanOver("Given Model", metric, classes),
                           MeanOver("Simple Model", metric, classes),
                           MeanOver("Perfect Model", metric, classes),
                           args.max_gain),
               args.min_allowed_gain)

\* C15: with average=True the outcome (PASS or FAIL and the failing
\* metrics) does not change when the Given, Simple or Perfect score of a
\* class outside the classes list changes, and a metric is reported as
\* failed exactly when the gain of its mean scores over the included
\* classes is <= min_allowed_gain.
C15_AveragedOverIncludedOnly ==
    (ret # None /\ args.average) =>
        /\ \A k \in DOMAIN args.result, v \in OtherScores :
              args.result[k].Class \notin IncludedClasses =>
                  Outcome(calculate_condition_logic(
                              [args EXCEPT !.result = WithScore(args.result, k, v)]))
                      = Outcome(ret)
        /\ (/\ ret.category \in {"PASS", "FAIL"}
            /\ \A metric \in Range(GainMetrics) : \A c \in Range(AveragedClasses(metric)) :
                  ScoreIn(args.result, "Perfect Model", metric, c) # None) =>
              \A metric \in Range(GainMetrics) :
                  metric \in Outcome(ret).failed <=> FailsOnAverage(metric)

-----------------------------------------------------------------------------
(* SimpleModelComparison._generate_simple_model_metrics.  A split is seen  *)
(* through num_classes and get_cache()['labels'], a dictionary modelled as *)
(* the sequence of its <<label, count>> items in insertion order.          *)

RECURSIVE SumCounts(_)
SumCounts(labels) == IF labels = <<>> THEN 0 ELSE labels[1][2] + SumCounts(Tail(labels))

\* the count stored under a label, 0 if the label is no key
CountAt(labels, label) ==
    LET hits == {k \in DOMAIN labels : labels[k][1] = label}
    IN  IF hits = {} THEN 0 ELSE labels[CHOOSE k \in hits : TRUE][2]

\* the position class_prior[label] writes: a label from -num_classes counts
\* from the end
PriorIndex(label, num_classes) == IF label < 0 THEN label + num_classes ELSE label

\* lines 214-219: the counts written into np.zeros(num_classes), the last
\* write of a position standing, divided by n_samples (nan and infinities
\* where n_samples is 0); position c + 1 holds class c
ClassPrior(train) ==
    [c \in 1..train.num_classes |->
        LET writes == {k \in DOMAIN train.labels :
                          PriorIndex(train.labels[k][1], train.num_classes) = c - 1}
            count == IF writes = {} THEN 0
                     ELSE train.labels[CHOOSE k \in writes : \A j \in writes : j <= k][2]
        IN  FDiv(FromInt(count), FromInt(SumCounts(train.labels)))]

\* np.argmax: the first nan if there is one, else the first position of
\* the maximum, as a class id
np_argmax(vec) ==
    LET nans == {c \in DOMAIN vec : vec[c] = NaN}
    IN  IF nans # {} THEN (CHOOSE c \in nans : \A j \in nans : c <= j) - 1
        ELSE (CHOOSE c \in DOMAIN vec :
                 /\ \A j \in DOMAIN vec : FLe(vec[j], vec[c])
                 /\ \A j \in DOMAIN vec : j < c => FLt(vec[j], vec[c])) - 1

OneHot(class, width) ==
    [c \in 1..width |-> IF c = class + 1 THEN FromInt(1) ELSE FZero]

dummy_predictor_LeastFrequent(strategy, class_prior, num_classes, drawn) ==
    CASE strategy = "most_frequent" ->
            OneHot(np_argmax([c \in DOMAIN class_prior |-> FNeg(class_prior[c])]), num_classes)
      [] strategy = "prior" -> class_prior
      [] strategy = "stratified" -> OneHot(drawn, num_classes)
      [] strategy = "uniform" ->
            [c \in 1..num_classes |-> FDiv(FromInt(1), FromInt(num_classes))]

\* lines 221-229: one call of the dummy predictor; drawn is the class that
\* np.random.multinomial(1, class_prior) draws
dummy_predictor(strategy, class_prior, num_classes, drawn) ==
    CASE strategy = "most_frequent" -> OneHot(np_argmax(class_prior), num_classes)
      [] strategy = "prior" -> class_prior
      [] strategy = "stratified" -> OneHot(drawn, num_classes)
      [] strategy = "uniform" ->
            [c \in 1..num_classes |-> FDiv(FromInt(1), FromInt(num_classes))]

RECURSIVE Repeat(_, _)
\* [label] * num_observed
Repeat(label, num_observed) ==
    IF num_observed <= 0 THEN <<>> ELSE <<label>> \o Repeat(label, num_observed - 1)

RECURSIVE DummyLabels(_)
\* lines 239-240: labels += [label] * num_observed over the test items
DummyLabels(test_labels) ==
    IF test_labels = <<>> THEN <<>>
    ELSE Repeat(test_labels[1][1], test_labels[1][2]) \o DummyLabels(Tail(test_labels))

\* the classes multinomial can draw: those of positive prior; any class
\* under a prior of nan, on which the sampler's result is not defined
Drawable(train) ==
    LET class_prior == ClassPrior(train)
    IN  {c \in 0..(train.num_classes - 1) :
            class_prior[c + 1] = NaN \/ FLt(FZero, class_prior[c + 1])}

\* the words one np.random.multinomial(1, class_prior) takes from the
\* generator when it draws class drawn: a binomial draw of one double, two
\* words, for every class of nonzero prior up to the drawn one, the last
\* class taking what is left
MultinomialWords(class_prior, drawn) ==
    LET last_class == Len(class_prior) - 1
        upto == IF drawn < last_class THEN drawn ELSE last_class - 1
    IN  2 * Cardinality({c \in 0..upto : ~IsZero(class_prior[c + 1])})

RECURSIVE SumWords(_, _)
SumWords(class_prior, draws) ==
    IF draws = <<>> THEN 0
    ELSE MultinomialWords(class_prior, draws[1]) + SumWords(class_prior, Tail(draws))

\* _generate_simple_model_metrics(train, test); draws[i] is the class drawn
\* for the i-th prediction under the stratified strategy
_generate_simple_model_metrics(self, train, test, draws) ==
    IF \E k \in DOMAIN train.labels : \/ train.labels[k][1] >= train.num_classes
                                       \/ train.labels[k][1] < -train.num_classes
    THEN [ok |-> FALSE, err |-> "IndexError"]
    ELSE IF self.strategy \notin _allowed_strategies
    THEN [ok |-> FALSE, err |-> "DeepchecksValueError"]
    ELSE LET class_prior == ClassPrior(train)
             labels == DummyLabels(test.labels)
             dummy_predictions ==
                 [i \in DOMAIN labels |->
                     dummy_predictor(self.strategy, class_prior, train.num_classes, draws[i])]
         IN  [ok |-> TRUE,
              metrics |-> UpdateAll(NewScorers(self.scorers), <<dummy_predictions, labels>>)]

-----------------------------------------------------------------------------
(* Specification SpecSimple: simple-model generation over train and test   *)
(* label counts.                                                           *)

\* class ids are counted from 0; the first split has no labels
TrainLabels ==
    { <<>>,
      << <<0, 80>>, <<1, 20>> >>,
      << <<1, 2>>, <<0, 2>> >>,
      << <<2, 3>>, <<0, 1>> >>,
      << <<1, 1>> >>,
      << <<0, 1>>, <<1, 2>>, <<2, 2>> >> }

TestItems == (0..2) \X (0..2)

TestLabels ==
    {<<>>} \cup { <<a>> : a \in TestItems }
           \cup { p \in TestItems \X TestItems : p[1][1] # p[2][1] }

InitSimple ==
    /\ np_state = UnseededState
    /\ IdleSampler
    /\ IdleObjects
    /\ IdleVision
    /\ context = None
    /\ fed = <<>>
    /\ \E scorers \in {None, Some(<<"accuracy", "precision">>)},
          strategy \in _allowed_strategies :
          check = SimpleModelComparison_init(scorers, strategy, 20, "largest", None, None).val
    /\ \E labels \in TrainLabels, num_classes \in {2, 3}, test_labels \in TestLabels :
          args = [train |-> [num_classes |-> num_classes, labels |-> labels],
                  test |-> [labels |-> test_labels]]
    /\ ret = None

\* the generator after n more words
NpAdvance(state, n) == IF Unseeded(state) THEN state ELSE [state EXCEPT !.pos = @ + n]

Call_generate_simple_model_metrics ==
    /\ ret = None
    /\ LET n == SumCounts(args.test.labels)
           stratified == /\ check.strategy = "stratified"
                         /\ \A k \in DOMAIN args.train.labels :
                               /\ args.train.labels[k][1] < args.train.num_classes
                               /\ args.train.labels[k][1] >= -args.train.num_classes
       IN  \E draws \in IF stratified THEN [1..n -> Drawable(args.train)]
                        ELSE {[i \in 1..n |-> 0]} :
              /\ ret' = _generate_simple_model_metrics(check, args.train, args.test, draws)
              /\ np_state' = IF stratified
                             THEN NpAdvance(np_state,
                                            SumWords(ClassPrior(args.train), draws))
                             ELSE np_state
    /\ UNCHANGED <<samplerVars, visionVars, checkVars, args, objectVars>>

NextSimple == Call_generate_simple_model_metrics

SpecSimple == InitSimple /\ [][NextSimple]_vars

\* the training count of a class and the training total, from the dictionary
TrainCount(c) == CountAt(args.train.labels, c)
TrainTotal == SumCounts(args.train.labels)

\* the vector the claim gives for a deterministic strategy
ClaimedVector(strategy) ==
    [c \in 1..args.train.num_classes |->
        CASE strategy = "most_frequent" ->
                IF /\ \A j \in 0..(args.train.num_classes - 1) : TrainCount(j) <= TrainCount(c - 1)
                   /\ \A j \in 0..(c - 2) : TrainCount(j) < TrainCount(c - 1)
                THEN FromInt(1) ELSE FZero
          [] strategy = "prior" -> FDiv(FromInt(TrainCount(c - 1)), FromInt(TrainTotal))
          [] strategy = "uniform" -> FDiv(FromInt(1), FromInt(args.train.num_classes))]

\* C8: every metric of the simple model receives one update whose labels
\* hold, for every class c of the test counts, exactly count_test(c)
\* entries c, with as many predictions as labels; under most_frequent,
\* prior and uniform every prediction is the one vector of length
\* num_classes: one-hot at the class of largest training count (the lowest
\* such class on a tie), the training frequencies, or 1/num_classes.
C8_SimpleModelPredictions ==
    (ret # None /\ ret.ok) =>
        \A m \in DOMAIN ret.metrics :
            /\ Len(ret.metrics[m]) = 1
            /\ LET dummy_predictions == ret.metrics[m][1][1]
                   labels == ret.metrics[m][1][2]
               IN  /\ Len(dummy_predictions) = Len(labels)
                   /\ Len(labels) = SumCounts(args.test.labels)
                   /\ \A c \in 0..2 :
                         Cardinality({i \in DOMAIN labels : labels[i] = c})
                             = CountAt(args.test.labels, c)
                   /\ \A i \in DOMAIN dummy_predictions :
                         /\ Len(dummy_predictions[i]) = args.train.num_classes
                         /\ check.strategy # "stratified" =>
                               dummy_predictions[i] = ClaimedVector(check.strategy)

\* C8 witness: most_frequent on train counts {0: 80, 1: 20} predicted
\* class 0 with probability 1 for each of the samples of two test classes
C8_Witness ==
    /\ ret # None
    /\ ret.ok
    /\ check.strategy = "most_frequent"
    /\ args.train = [num_classes |-> 2, labels |-> << <<0, 80>>, <<1, 20>> >>]
    /\ args.test.labels = << <<1, 2>>, <<0, 1>> >>
    /\ ret.metrics["F1"][1] =
          << << <<FromInt(1), FZero>>, <<FromInt(1), FZero>>, <<FromInt(1), FZero>> >>,
             <<1, 1, 0>> >>

-----------------------------------------------------------------------------
(* Specification SpecSampler: samplers are constructed and iterated while  *)
(* other code draws from numpy's process-wide generator.  The constructor  *)
(* calls np.random.seed and np.random.choice one after the other, and      *)
(* __iter__ is a generator that gives control back after every index, so   *)
(* other steps fall between the two calls and between two indices.  A      *)
(* sampler has one iteration in progress at a time.                        *)

MaxDraws == 2        \* words other code draws after a seeding

SamplerLengths == {-1, 0, MaxLen}
SamplerSeeds == Seeds \cup {-1}
SampleSizes == {None, Some(-1), Some(0), Some(MaxLen - 1), Some(MaxLen + 1)}

InitSampler ==
    /\ np_state = UnseededState
    /\ IdleSampler
    /\ IdleObjects
    /\ IdleVision
    /\ IdleCall
    /\ IdleCheck

\* FixedSampler(length, seed, sample_size) up to and including np.random.seed
Construct(i, length, seed, sample_size) ==
    /\ samplers[i] = None
    /\ LET r == FixedSampler_init_seed(length, seed, sample_size, np_state)
       IN  /\ samplers' = IF r.ok
                          THEN [samplers EXCEPT ![i] =
                                   Some([obj |-> r.obj, sample_size |-> sample_size,
                                         pending |-> r.pending])]
                          ELSE samplers
           /\ np_state' = r.state
           /\ last' = [op |-> "FixedSampler", ok |-> r.ok,
                       err |-> IF r.ok THEN None ELSE Some(r.err)]
    /\ UNCHANGED <<iterations, vd, scans, first_spc, callVars, checkVars, objectVars>>

\* the constructor's np.random.choice
Choose(i) ==
    /\ samplers[i] # None
    /\ samplers[i].val.pending # None
    /\ \E os \in EntropyChoices(np_state, samplers[i].val.obj._length,
                                 samplers[i].val.pending.val) :
       \E c \in {FixedSampler_init_choice(samplers[i].val.obj,
                                          samplers[i].val.pending.val, np_state, os)} :
           /\ samplers' = [samplers EXCEPT ![i] =
                              Some([@.val EXCEPT !.obj = c.obj, !.pending = None])]
           /\ np_state' = c.state
    /\ UNCHANGED <<iterations, visionVars, callVars, checkVars, objectVars>>

\* iter(sampler): a generator, none of its code has run
Iterate(i) ==
    /\ samplers[i] # None
    /\ samplers[i].val.pending = None
    /\ Len(iterations[i]) < MaxIters
    /\ \A a \in DOMAIN iterations[i] : iterations[i][a].done
    /\ iterations' = [iterations EXCEPT ![i] =
                         Append(@, [ok |-> TRUE, val |-> <<>>, done |-> FALSE])]
    /\ UNCHANGED <<np_state, samplers, visionVars, callVars, checkVars, objectVars>>

\* next() on the generator in progress
NextIndex(i) ==
    /\ iterations[i] # <<>>
    /\ LET a == Len(iterations[i])
           it == iterations[i][a]
           n == FixedSampler_next(samplers[i].val.obj, Len(it.val))
       IN  /\ ~it.done
           /\ iterations' = [iterations EXCEPT ![i][a] =
                  CASE n.kind = "yield" -> [it EXCEPT !.val = Append(@, n.val)]
                    [] n.kind = "stop" -> [it EXCEPT !.done = TRUE]
                    [] n.kind = "raise" -> [ok |-> FALSE, err |-> n.err, done |-> TRUE]]
    /\ UNCHANGED <<np_state, samplers, visionVars, callVars, checkVars, objectVars>>

\* any other use of np.random (e.g. the stratified strategy's multinomial draw)
NpRandomUse ==
    /\ np_state.pos < MaxDraws
    /\ np_state' = NpNext(np_state)
    /\ UNCHANGED <<samplers, iterations, visionVars, callVars, checkVars, objectVars>>

NextSampler ==
    \/ \E i \in SamplerIds, length \in SamplerLengths, seed \in SamplerSeeds,
          ss \in SampleSizes : Construct(i, length, seed, ss)
    \/ \E i \in SamplerIds : Choose(i)
    \/ \E i \in SamplerIds : Iterate(i)
    \/ \E i \in SamplerIds : NextIndex(i)
    \/ NpRandomUse

SpecSampler == InitSampler /\ [][NextSampler]_vars

\* C2: for fixed (length, seed, sample_size) every iteration, of one sampler or
\* of two samplers built with the same three values, yields the same ordered
\* index sequence, with and without sample_size.
C2_SameSequenceEveryIteration ==
    \A i, j \in SamplerIds :
        (/\ samplers[i] # None /\ samplers[j] # None
         /\ samplers[i].val.obj._length = samplers[j].val.obj._length
         /\ samplers[i].val.obj._seed = samplers[j].val.obj._seed
         /\ samplers[i].val.sample_size = samplers[j].val.sample_size) =>
            \A a \in DOMAIN iterations[i], b \in DOMAIN iterations[j] :
                (iterations[i][a].done /\ iterations[j][b].done) =>
                    /\ iterations[i][a].ok
                    /\ iterations[j][b].ok
                    /\ iterations[i][a].val = iterations[j][b].val

\* C3: a bounded sampler produces exactly min(sample_size, length) distinct
\* indices of [0, length) and reports that many as its length; an unbounded
\* sampler produces a permutation of [0, length).
C3_IndicesOfSampler ==
    \A i \in SamplerIds :
        samplers[i] # None =>
            \A a \in DOMAIN iterations[i] :
                LET s == samplers[i].val
                    o == iterations[i][a]
                    expected == IF s.sample_size # None
                                THEN Min(s.sample_size.val, s.obj._length)
                                ELSE s.obj._length
                IN  o.done =>
                        /\ o.ok
                        /\ Len(o.val) = expected
                        /\ NoDuplicates(o.val)
                        /\ Range(o.val) \subseteq 0..(s.obj._length - 1)
                        /\ FixedSampler_len(s.obj) = Len(o.val)

=============================================================================
